---- MODULE Spec2Model ----
(***************************************************************************)
(* LPMM knowledge store: the deletion script scripts/delete_lpmm_items.py  *)
(* run against the persisted embedding collections and knowledge graph.    *)
(*                                                                         *)
(* The persisted store, prefix d, is what load_from_file reads and         *)
(* save_to_file writes;                                                    *)
(* the managers of one script run, prefix m, are the in-memory copies      *)
(* the run mutates.  The loader that inserts paragraphs, the embedding     *)
(* store's delete_items and the graph's delete_paragraphs are not part of  *)
(* the sources at hand and follow the written specification.               *)
(*                                                                         *)
(* More components follow, each with a specification of its own over   *)
(* its own variable: the extraction pipeline, src/chat/knowledge/          *)
(* ie_process.py (SpecIE), and the model performance cache,                *)
(* src/llm_models/model_performance_cache.py (SpecCache); and the message  *)
(* recorder, src/bw_learner/message_recorder.py (SpecRec); and the         *)
(* threads of one process that share the cache (SpecThreads).              *)
(***************************************************************************)
EXTENDS Integers, Sequences, FiniteSets, TLC

\* ------------------------------------------------------------------ bounds
MaxHashFileLen == 2     \* lines of a --hash-file

MaxDeleteNodes == 1     \* value given to --max-delete-nodes (default 2000): small
                        \* enough for requests on both sides of the threshold

PFX == "paragraph-"

\* ------------------------------------------------------- content catalogue
\* Paragraph texts, entity surface strings and the OpenIE document of each
\* paragraph (extracted_entities, extracted_triples).
Texts == {"t1", "t2"}
Entities == {"e1", "e2", "e3"}

Triple12 == <<"e1", "is", "e2">>
Triple23 == <<"e2", "is", "e3">>

\* str(tuple(t)) of a triple
TupleStr(t) == IF t = Triple12 THEN "(e1,is,e2)" ELSE "(e2,is,e3)"

\* get_sha256: injective on the catalogue (collision resistance)
get_sha256(s) ==
    CASE s = "t1" -> "h1" [] s = "t2" -> "h2"
      [] s = "e1" -> "a1" [] s = "e2" -> "a2" [] s = "e3" -> "a3"
      [] s = "(e1,is,e2)" -> "r12" [] s = "(e2,is,e3)" -> "r23"

AbsentHash == "hx"      \* hash of no stored or storable paragraph
ParaHashes == {get_sha256(t) : t \in Texts}

\* One "docs" entry of an OpenIE file
Doc(t) ==
    CASE t = "t1" -> [idx |-> get_sha256("t1"),
                      extracted_entities |-> <<"e1", "e2">>,
                      extracted_triples |-> <<Triple12>>]
      [] t = "t2" -> [idx |-> get_sha256("t2"),
                      extracted_entities |-> <<"e2", "e3">>,
                      extracted_triples |-> <<Triple23>>]

\* --------------------------------------------------------------- keys
ParagraphKey(h) == <<PFX, h>>
EntityKey(h) == <<"entity-", h>>
RelationKey(h) == <<"relation-", h>>

IsParagraphKey(k) == k[1] = PFX
IsEntityKey(k) == k[1] = "entity-"

Range(s) == {s[i] : i \in 1..Len(s)}


\* ------------------------------------------------------ script: input stage
\* A raw identifier is a line of the hash file: a bare hash <<h>> or the
\* prefixed form <<"paragraph-", h>>.
RawIds == {<<"h1">>, <<PFX, "h1">>, <<AbsentHash>>}

RECURSIVE SeqsUpTo(_, _)
SeqsUpTo(S, n) ==
    IF n = 0 THEN {<<>>}
    ELSE LET R == SeqsUpTo(S, n - 1)
         IN R \cup {Append(r, x) : r \in {q \in R : Len(q) = n - 1}, x \in S}

\* raw_hashes = [h for h in raw_hashes if not (h in seen or seen.add(h))]
RECURSIVE Dedup(_, _)
Dedup(s, seen) ==
    IF s = <<>> THEN <<>>
    ELSE IF Head(s) \in seen THEN Dedup(Tail(s), seen)
    ELSE <<Head(s)>> \o Dedup(Tail(s), seen \cup {Head(s)})

\* normalize_paragraph_keys: (keys, hashes)
startswith_paragraph(h) == Len(h) > 1 /\ Head(h) = PFX
\* variant: the prefix is never added
NormKey_BareKept(h) == h
\* variant: the prefix is added to a full key as well
NormKey_AlwaysPrefixed(h) == <<PFX>> \o h
NormKey(h) == IF startswith_paragraph(h) THEN h ELSE <<PFX>> \o h
\* variant: the prefix is not stripped from a full key
NormHash_NotStripped(h) == h[1]
NormHash(h) == IF startswith_paragraph(h) THEN Tail(h)[1] ELSE h[1]
normalize_paragraph_keys(raw_hashes) ==
    [keys |-> [i \in 1..Len(raw_hashes) |-> NormKey(raw_hashes[i])],
     hashes |-> [i \in 1..Len(raw_hashes) |-> NormHash(raw_hashes[i])]]

\* read_openie_hashes over the docs of the file
DocIdx(t) == <<Doc(t).idx>>
read_openie_hashes(docs) == [i \in 1..Len(docs) |-> DocIdx(docs[i])]

\* raw_entities: extracted_entities followed by subject and object of every
\* triple, per doc; raw_relations: str(tuple(t)) of every triple
RECURSIVE TripleEnds(_)
TripleEnds(ts) ==
    IF ts = <<>> THEN <<>> ELSE <<Head(ts)[1], Head(ts)[3]>> \o TripleEnds(Tail(ts))
RECURSIVE raw_entities_of(_)
raw_entities_of(docs) ==
    IF docs = <<>> THEN <<>>
    ELSE Doc(Head(docs)).extracted_entities
           \o TripleEnds(Doc(Head(docs)).extracted_triples)
           \o raw_entities_of(Tail(docs))
RECURSIVE raw_relations_of(_)
raw_relations_of(docs) ==
    IF docs = <<>> THEN <<>>
    ELSE LET ts == Doc(Head(docs)).extracted_triples
         IN [i \in 1..Len(ts) |-> TupleStr(ts[i])] \o raw_relations_of(Tail(docs))

\* ----------------------------------------------------------------- state
VARIABLES
    dPg, dEnt, dRel,        \* persisted embedding collections (key sets)
    dIdx,                   \* persisted similarity index: the keys it covers
    dNodes, dEdges, dCnt,   \* persisted graph: nodes, edges, ent_appear_cnt
    mPg, mEnt, mRel, mIdx,  \* embed_manager of the running script
    mNodes, mEdges, mCnt,   \* kg_manager of the running script
    pc,                     \* position of the script run
    args,                   \* parsed command line and answers typed by the operator
    loc,                    \* locals of main: keys, pg_hashes, ent_hashes, rel_hashes, ...
    res,                    \* counts returned by the deletions of the run
    outcome,                \* how the last run ended
    searched,               \* the --search-text stage loaded the embedding files
    pre,                    \* persisted store when the run started
    rt                      \* pending insert/delete round trip

dVars == <<dPg, dEnt, dRel, dIdx, dNodes, dEdges, dCnt>>
mVars == <<mPg, mEnt, mRel, mIdx, mNodes, mEdges, mCnt>>
delVars == <<dVars, mVars, pc, args, loc, res, outcome, searched, pre, rt>>

\* the other components of the repository: the extraction pipeline
\* (src/chat/knowledge/ie_process.py), the model performance cache
\* (src/llm_models/model_performance_cache.py) and the message recorder
\* (src/bw_learner/message_recorder.py)
VARIABLES
    ie,                     \* one call of info_extract_from_str: its locals and position
    mc,                     \* the model performance cache: file, object, caller
    mr,                     \* the message recorder of one chat stream and its messages
    mt,                     \* threads of one process that call the cache
    rx,                     \* coroutines that call extract_and_distribute_messages
    cm,                     \* the ConfigMap sync of the helm chart
    sp                      \* the default-plugin setup of the helm chart

more == <<rx, cm, sp>>
others == <<ie, mc, mr, mt, more>>
vars == <<delVars, others>>


\* no call of info_extract_from_str is in progress
IeNone == [pc |-> "idle", paragraph |-> 0, try_count |-> 0,
           loop_running |-> FALSE,
           entity_extract_result |-> <<>>,
           returned |-> "nothing", entities |-> <<>>, triples |-> <<>>,
           log |-> <<>>, clock |-> 0,
           last_error |-> "", rdf_garbled |-> TRUE, rdf_entities |-> {},
           fallback |-> FALSE]

\* ---- the cache file and the object of the model performance cache:
\* ---- their values, and the state before instance() is first called
\* ------------------------------------------------------------------ bounds
MaxRecords == 3         \* record_success / record_failure calls
MaxElapsed == 5         \* time units that pass in the model
TickSteps == {4, 5}     \* time units between two looks at the clock: one
                        \* short of the flush interval, and the interval

StartTime == 100        \* time.time() when the model starts
FlushInterval == 5
SuccessCap == 1000000
ConsecutiveCap == 100
ErrorTail == 256

CacheKeys == {"k1", "k2"}
ModelNames == {"m1", "m2"}
RecordKeys == {"k1"}    \* cache key and model name the callers of the model
RecordModels == {"m1"}  \* record under

\* latencies and avg_latency are counted in thousandths
Milli(x) == 1000 * x
Latencies == {Milli(2)}           \* a successful call that took two units
FailureLatencies == {Milli(-1)}    \* a failed call that reports no latency
ErrorMessages == {[len |-> 300, id |-> "trace"]}
NoMessage == [len |-> 0, id |-> ""]

\* The value under a model name: st is absent, notdict (JSON that is not an
\* object) or dict (the metrics object).
NoMetrics == [st |-> "absent", avg_latency |-> 0, last_latency |-> 0,
              success_count |-> 0, fail_count |-> 0, consecutive_failures |-> 0,
              last_call_ts |-> 0, last_success_ts |-> 0, last_fail_ts |-> 0,
              last_error |-> NoMessage]
NotDictMetrics == [NoMetrics EXCEPT !.st = "notdict"]
\* lines 89-99
NewEntry == [NoMetrics EXCEPT !.st = "dict"]
StoredMetrics == [NewEntry EXCEPT !.success_count = 3, !.avg_latency = Milli(2),
                                  !.last_latency = Milli(2), !.last_call_ts = 90,
                                  !.last_success_ts = 90]

\* The value under a cache key: absent, notdict, or the object of its models.
NoModels == [m \in ModelNames |-> NoMetrics]
NoValue == [st |-> "absent", models |-> NoModels]
NotDictValue == [st |-> "notdict", models |-> NoModels]
DictValue(ms) == [st |-> "dict", models |-> ms]

EmptyObject == [k \in CacheKeys |-> NoValue]

\* the cache file: missing, unreadable, not JSON, JSON that is not an object,
\* or a JSON object
File(kind, o) == [kind |-> kind, obj |-> o]
MissingFile == File("missing", EmptyObject)

FileCatalogue == {
    File("unreadable", EmptyObject), File("badjson", EmptyObject),
    File("nonobject", EmptyObject), File("object", EmptyObject),
    \* k1 holds a value that is not an object, k2 is well formed
    File("object", [EmptyObject EXCEPT
                       !["k1"] = NotDictValue,
                       !["k2"] = DictValue([NoModels EXCEPT !["m1"] = StoredMetrics])]),
    \* under k1, m1 is not an object and m2 is well formed
    File("object", [EmptyObject EXCEPT
                       !["k1"] = DictValue([NoModels EXCEPT !["m1"] = NotDictMetrics,
                                                            !["m2"] = StoredMetrics])]),
    \* well formed
    File("object", [EmptyObject EXCEPT
                       !["k1"] = DictValue([NoModels EXCEPT !["m1"] = StoredMetrics])]) }

\* what is remembered of the calls on the object: nothing yet
NoCalls == [last |-> "none", was_dirty |-> FALSE, kept |-> TRUE,
            gap |-> -1, rgap |-> -1, retry_due |-> FALSE,
            retry |-> FALSE, dump_time |-> -1, rdump_time |-> -1]

McNone == [file |-> MissingFile, tmp |-> "absent", inst |-> FALSE,
           data |-> EmptyObject, dirty |-> FALSE, last_dump_ts |-> 0,
           now |-> StartTime, error |-> "", records |-> 0,
           tried |-> FALSE, wrote |-> FALSE, calls |-> NoCalls]

\* ---- threads that call the cache within one process: instance() and the
\* ---- calls on the object it hands out, statement by statement
\* ------------------------------------------------------------------ bounds
MaxThreadOps == 2       \* calls each thread makes on the object it got

Threads == {1, 2}
CacheObjects == {1, 2}  \* objects that cls(cache_path) can construct: at
                        \* most one for each thread
ThreadCalls == {"record_success", "record_failure", "get_stats", "flush"}

\* The entry of the one cache key and model name the threads record under.
\* head counts the calls that have written last_call_ts (lines 107, 126),
\* the first field a record call writes; tail counts the calls that have
\* written avg_latency (lines 113-118, 133-139), the last one.  An entry
\* with head # tail is in the middle of an update.
FreshEntry == [head |-> 0, success_count |-> 0, fail_count |-> 0, tail |-> 0]

\* the state of the process before any thread has called instance():
\* _instance is None (0), line 16
MtNone == [_instance |-> 0, made |-> 0,
           registered |-> [o \in CacheObjects |-> 0],
           at |-> [t \in Threads |-> "call"],
           call |-> [t \in Threads |-> "instance"],
           got |-> [t \in Threads |-> 0],
           count |-> [t \in Threads |-> 0],
           ops |-> [t \in Threads |-> 0],
           lock |-> [o \in CacheObjects |-> 0],
           entry |-> [o \in CacheObjects |-> FreshEntry],
           dirty |-> [o \in CacheObjects |-> FALSE],
           file |-> FreshEntry,
           recorded |-> [o \in CacheObjects |-> 0],
           copied |-> [o \in CacheObjects |-> FALSE],
           dumped |-> [o \in CacheObjects |-> FALSE],
           torn |-> FALSE]

\* ---- coroutines of one event loop that call
\* ---- extract_and_distribute_messages for the same chat_id
\* ------------------------------------------------------------------ bounds
MaxTaskCalls == 2       \* calls each coroutine makes

Tasks == {1, 2}

\* before the first call: recorder_manager._recorders is empty (line 336)
RxNone == [recorders |-> 0, now |-> StartTime, last_extraction_time |-> 0,
           db |-> <<>>, arrivals |-> 0, lock |-> 0,
           at |-> [t \in Tasks |-> "idle"],
           calls |-> [t \in Tasks |-> 0],
           extraction_start_time |-> [t \in Tasks |-> 0],
           extraction_end_time |-> [t \in Tasks |-> 0],
           windows |-> <<>>, dispatched |-> <<>>]

\* ---- the ConfigMap sync, helm-chart/core-webui-cm-sync/core-webui-cm-sync.py
\* ------------------------------------------------------------------ bounds
MaxModifications == 3   \* writes to files of the working directory

\* target_files, lines 25-28
target_files == {"model_config.toml", "bot_config.toml"}
\* paths of the working directory that change: the watched files, the file
\* ready, and the directory itself
WorkDirPaths == target_files \cup {"ready", "."}
Contents == {"v1", "v2"}
InitialConfig == [f \in target_files |-> IF f = "model_config.toml" THEN "m0" ELSE "b0"]

\* before the program starts: the ConfigMap holds the two entries, the
\* working directory is empty
CmNone == [pc |-> "init", configmap |-> InitialConfig,
           files |-> [f \in WorkDirPaths |-> ""],
           events |-> <<>>, modifications |-> 0,
           last |-> [src_path |-> "", current_data |-> "", patched |-> FALSE,
                     before |-> InitialConfig]]

\* ---- the default-plugin setup, helm-chart/files/setup-plugins.py
\* ------------------------------------------------------------------ bounds
MaxRuns == 3            \* runs of the init container
MaxChanges == 2         \* changes made between runs: image updates, user deletions

Plugins == {"p1", "p2"}
Versions == {"c1", "c2"}    \* contents of a plugin directory

\* What the run finds at the path <name> under its working directory
\* /MaiMBot, name being a name listed in /MaiMBot/plugins: nothing; the
\* default plugins live under /MaiMBot/plugins only.
WorkDirEntry(name) == "absent"

\* before the first run: the image ships p1, the storage volume is empty,
\* no status file
SpNone == [src |-> [p \in Plugins |-> IF p = "p1" THEN "c1" ELSE "absent"],
           dst |-> [p \in Plugins |-> "absent"],
           status_file |-> FALSE,
           status |-> [p \in Plugins |-> "none"],
           backups |-> {},
           runs |-> 0, changes |-> 0,
           shipped |-> [p \in Plugins |-> "never"],
           last |-> [installed |-> {}, due |-> {}, backed_up |-> TRUE]]

\* ---- the message recorder of a chat stream: its values, and the state
\* ---- before the recorder of the chat is constructed
\* ------------------------------------------------------------------ bounds
MaxArrivals == 2        \* bursts of messages that reach the chat
MaxRecElapsed == 120    \* time units that pass in the model
RecTickSteps == {59, 60}    \* one short of min_extraction_interval, and the interval
HandlerTimes == {0, 1}  \* time between the first and the last look at the
                        \* clock within one extract_and_distribute

_max_person_count == 30
min_messages_for_extraction == 30
min_extraction_interval == 60

\* a message of the chat: sender and time; user_id 0 and platform "" stand
\* for a missing (None or empty) attribute
Msg(platform, user_id, t) == [platform |-> platform, user_id |-> user_id, time |-> t]

\* Bursts of messages; the time of each is given relative to the arrival.
\*   Crowd      thirty senders, one message each
\*   Returning  sender 1 again and two new senders, stored out of time order,
\*              then messages without a sender
\*   Nearly     twenty-nine messages
\*   Single     one message, a known user_id on another platform
Crowd == [i \in 1..30 |-> Msg("qq", i, 0)]
Returning == <<Msg("qq", 32, 0), Msg("qq", 1, -1), Msg("qq", 31, -1)>>
                \o [i \in 1..27 |-> Msg("qq", 0, 0)]
Nearly == [i \in 1..29 |-> Msg("qq", i + 1, 0)]
Single == <<Msg("wx", 1, 0)>>
Bursts == {Crowd, Returning, Nearly, Single}

MrNone == [made |-> FALSE, chat_stream |-> FALSE,
           enable_expression_learning |-> FALSE, now |-> StartTime,
           last_extraction_time |-> 0, person_list |-> <<>>,
           db |-> <<>>, arrivals |-> 0,
           nproc |-> 0, evictions |-> <<>>,
           extractions |-> 0, window_start |-> 0, window_count |-> 0,
           time_diff |-> 0, most_windows |-> 0]

EntityKeys == {EntityKey(get_sha256(e)) : e \in Entities}
ZeroCnt == [k \in EntityKeys |-> 0]

\* ------------------------------------------------- EmbeddingStore.delete_items
\* delete_many(keys) -> (deleted, skipped): a key that is absent when its turn
\* comes is skipped, never an error.
RECURSIVE delete_items(_, _)
delete_items(store, keys) ==
    IF keys = <<>> THEN [store |-> store, deleted |-> 0, skipped |-> 0]
    ELSE LET k == Head(keys)
             hit == k \in store
             r == delete_items(store \ {k}, Tail(keys))
         IN [store |-> r.store,
             deleted |-> r.deleted + (IF hit THEN 1 ELSE 0),
             skipped |-> r.skipped + (IF hit THEN 0 ELSE 1)]

\* ------------------------------------------------------------ KnowledgeGraph
\* An edge is <<subject key, predicate, object key, source paragraph key>>.
EdgeRefs(edges, k) ==
    Cardinality({e \in edges : e[1] = k}) + Cardinality({e \in edges : e[3] = k})

Dec(n, by) == IF n > by THEN n - by ELSE 0

\* variant: the edges of a removed paragraph are left in the graph
RECURSIVE RemoveParagraphs_EdgesKept(_, _)
RemoveParagraphs_EdgesKept(g, pg_hashes) ==
    IF pg_hashes = <<>> THEN g
    ELSE LET k == ParagraphKey(Head(pg_hashes))
             gone == {e \in g.edges : e[4] = k}
             g1 == IF k \in g.nodes
                   THEN [g EXCEPT
                           !.nodes = g.nodes \ {k},
                           !.cnt = [n \in EntityKeys |-> Dec(g.cnt[n], EdgeRefs(gone, n))],
                           !.deleted = g.deleted + 1]
                   ELSE [g EXCEPT !.skipped = g.skipped + 1]
         IN RemoveParagraphs_EdgesKept(g1, Tail(pg_hashes))

\* step 1: remove the paragraph node and the edges it is the source of
RECURSIVE RemoveParagraphs(_, _)
RemoveParagraphs(g, pg_hashes) ==
    IF pg_hashes = <<>> THEN g
    ELSE LET k == ParagraphKey(Head(pg_hashes))
             gone == {e \in g.edges : e[4] = k}
             g1 == IF k \in g.nodes
                   THEN [g EXCEPT
                           !.nodes = g.nodes \ {k},
                           !.edges = g.edges \ gone,
                           !.cnt = [n \in EntityKeys |-> Dec(g.cnt[n], EdgeRefs(gone, n))],
                           !.deleted = g.deleted + 1]
                   ELSE [g EXCEPT !.skipped = g.skipped + 1]
         IN RemoveParagraphs(g1, Tail(pg_hashes))

\* step 2: recompute the counters of the given entities from the remaining edges
RecountEntities(g, ent) ==
    IF ent.given
    THEN LET ks == {EntityKey(h) : h \in Range(ent.val)}
         IN [g EXCEPT !.cnt = [n \in EntityKeys |->
                                 IF n \in ks THEN EdgeRefs(g.edges, n) ELSE g.cnt[n]]]
    ELSE g

ReferencedByParagraph(g, n) ==
    \E e \in g.edges : (e[1] = n \/ e[3] = n) /\ e[4] \in g.nodes

Orphans(g) ==
    {n \in g.nodes : IsEntityKey(n) /\ g.cnt[n] = 0 /\ ~ReferencedByParagraph(g, n)}

\* step 3: orphan sweep
SweepOrphans(g, remove_orphan_entities) ==
    IF remove_orphan_entities
    THEN [g EXCEPT !.nodes = g.nodes \ Orphans(g),
                   !.orphan_removed = Cardinality(Orphans(g))]
    ELSE g

\* KGManager.delete_paragraphs(pg_hashes, ent_hashes, remove_orphan_entities)
delete_paragraphs(nodes, edges, cnt, pg_hashes, ent, remove_orphan_entities) ==
    LET g0 == [nodes |-> nodes, edges |-> edges, cnt |-> cnt,
               deleted |-> 0, skipped |-> 0, orphan_removed |-> 0]
    IN SweepOrphans(RecountEntities(RemoveParagraphs(g0, pg_hashes), ent),
                    remove_orphan_entities)

\* ------------------------------------------------------------------ loader
\* Insertion of one extracted paragraph: vectors into the three collections,
\* paragraph and entity nodes and one edge per triple into the graph
\* (add_relation_edge increments the counters of both endpoints), index
\* rebuilt, both representations saved.  Content already stored is not
\* inserted again: the paragraph is in neither the collection nor the graph.
DocEntityKeys(t) ==
    {EntityKey(get_sha256(e)) :
        e \in Range(Doc(t).extracted_entities) \cup Range(TripleEnds(Doc(t).extracted_triples))}
DocRelationKeys(t) ==
    {RelationKey(get_sha256(TupleStr(tr))) : tr \in Range(Doc(t).extracted_triples)}
DocEdges(t) ==
    {<<EntityKey(get_sha256(tr[1])), tr[2], EntityKey(get_sha256(tr[3])),
       ParagraphKey(Doc(t).idx)>> : tr \in Range(Doc(t).extracted_triples)}

RECURSIVE AddCounts(_, _)
AddCounts(cnt, ts) ==
    IF ts = <<>> THEN cnt
    ELSE LET s == EntityKey(get_sha256(Head(ts)[1]))
             o == EntityKey(get_sha256(Head(ts)[3]))
             c1 == [cnt EXCEPT ![s] = @ + 1]
         IN AddCounts([c1 EXCEPT ![o] = @ + 1], Tail(ts))

Snapshot == [pg |-> dPg, ent |-> dEnt, rel |-> dRel, idx |-> dIdx,
             nodes |-> dNodes, edges |-> dEdges, cnt |-> dCnt]
NoSnapshot == [pg |-> {}, ent |-> {}, rel |-> {}, idx |-> {},
               nodes |-> {}, edges |-> {}, cnt |-> ZeroCnt]

NoSearch == [on |-> FALSE, picks |-> <<>>]
NoArgs == [hash_file |-> <<>>, openie_file |-> <<>>, search |-> NoSearch,
           delete_entities |-> FALSE, delete_relations |-> FALSE,
           remove_orphan_entities |-> FALSE, dry_run |-> FALSE, yes |-> FALSE,
           max_delete_nodes |-> MaxDeleteNodes, confirm |-> <<>>]
NoLoc == [keys |-> <<>>, pg_hashes |-> <<>>, ent_hashes |-> <<>>, rel_hashes |-> <<>>,
          total_nodes_to_delete |-> 0]
NoRes == [deleted |-> 0, skipped |-> 0, ent_deleted |-> 0, ent_skipped |-> 0,
          rel_deleted |-> 0, rel_skipped |-> 0,
          kg_deleted |-> 0, kg_skipped |-> 0, orphan_removed |-> 0]
NoRt == [stage |-> "none", key |-> <<>>, pg |-> {}, nodes |-> {}]

Insert(t) ==
    LET k == ParagraphKey(Doc(t).idx)
    IN /\ pc = "idle"
       /\ k \notin dPg /\ k \notin dNodes
       /\ dPg' = dPg \cup {k}
       /\ dEnt' = dEnt \cup DocEntityKeys(t)
       /\ dRel' = dRel \cup DocRelationKeys(t)
       /\ dIdx' = dPg' \cup dEnt' \cup dRel'
       /\ dNodes' = dNodes \cup {k} \cup DocEntityKeys(t)
       /\ dEdges' = dEdges \cup DocEdges(t)
       /\ dCnt' = AddCounts(dCnt, Doc(t).extracted_triples)
       /\ rt' = [stage |-> "inserted", key |-> k, pg |-> dPg, nodes |-> dNodes]
       /\ UNCHANGED <<others, mVars, pc, args, loc, res, outcome, searched, pre>>

\* ------------------------------------------------------------ script: main
HashFiles == SeqsUpTo(RawIds, MaxHashFileLen)
OpenieFiles == {<<>>} \cup {<<t>> : t \in Texts}
\* --search-text: off, or the list of candidates the operator picked (empty:
\* no candidate or the prompt answered with return)
SearchChoices ==
    {NoSearch} \cup {[on |-> TRUE, picks |-> s] :
                        s \in {<<>>, <<"h1">>, <<"h2">>, <<"h1", "h2">>}}
\* ----------------------------------------------------------- str methods
Whitespace == {"space", "nl", "ideospace"}

Min(S) == CHOOSE i \in S : \A j \in S : i <= j

\* positions of the characters of s outside cs
Outside(s, cs) == {i \in 1..Len(s) : s[i] \notin cs}

lstrip(s, cs) ==
    LET o == Outside(s, cs) IN IF o = {} THEN <<>> ELSE SubSeq(s, Min(o), Len(s))

Reverse(s) == [i \in 1..Len(s) |-> s[Len(s) + 1 - i]]

rstrip(s, cs) == Reverse(lstrip(Reverse(s), cs))

strip(s, cs) == rstrip(lstrip(s, cs), cs)

\* what the operator types at the confirmation prompt, character by
\* character: YES, YES after a space, yes, no
YES == <<"Y", "E", "S">>
Answers == {YES, <<"space">> \o YES, <<"y", "e", "s">>, <<"n", "o">>}

\* the sources of one command line: a hash file, an OpenIE file, or an
\* interactive search; --delete-entities and --delete-relations, which act on
\* the entities and triples of an OpenIE file only, are drawn with one
Sources ==
    {[hash_file |-> hf, openie_file |-> <<>>, search |-> NoSearch] : hf \in HashFiles}
    \cup {[hash_file |-> <<>>, openie_file |-> of, search |-> NoSearch] : of \in OpenieFiles}
    \cup {[hash_file |-> <<>>, openie_file |-> <<>>, search |-> s] :
            s \in SearchChoices \ {NoSearch}}

\* not (args.hash_file or args.openie_file or args.raw_file or args.search_text)
NoSource(a) == a.hash_file = <<>> /\ a.openie_file = <<>> /\ ~a.search.on

\* --search-text: the candidates are stored paragraphs; the bare hash of each
\* picked one is appended (key.split("paragraph-", 1)[1])
BareId(h) == <<h>>
SearchPick(a) == [i \in 1..Len(a.search.picks) |-> BareId(a.search.picks[i])]

CollectRawHashes(a) ==
    Dedup(a.hash_file \o read_openie_hashes(a.openie_file) \o SearchPick(a), {})

EntHashes(a) ==
    LET raw_entities == raw_entities_of(a.openie_file)
    IN IF a.delete_entities /\ raw_entities # <<>>
       THEN [i \in 1..Len(raw_entities) |-> get_sha256(raw_entities[i])] ELSE <<>>
RelHashes(a) ==
    LET raw_relations == raw_relations_of(a.openie_file)
    IN IF a.delete_relations /\ raw_relations # <<>>
       THEN [i \in 1..Len(raw_relations) |-> get_sha256(raw_relations[i])] ELSE <<>>

\* total_nodes_to_delete = len(pg_hashes) + (len(ent_hashes) if delete_entities else 0)
TotalNodes(a, pg_hashes, ent_hashes) ==
    Len(pg_hashes) + (IF a.delete_entities THEN Len(ent_hashes) ELSE 0)

Locals(a) ==
    LET n == normalize_paragraph_keys(CollectRawHashes(a))
    IN [keys |-> n.keys, pg_hashes |-> n.hashes,
        ent_hashes |-> EntHashes(a), rel_hashes |-> RelHashes(a),
        total_nodes_to_delete |-> TotalNodes(a, n.hashes, EntHashes(a))]

\* variant: --yes overrides --dry-run
DryRunGate_YesWins(a) == a.dry_run /\ ~a.yes
DryRunGate(a) == a.dry_run
\* variant: the override test is inverted
ThresholdGate_Inverted(a, total) == total > a.max_delete_nodes /\ a.yes
ThresholdGate(a, total) == total > a.max_delete_nodes /\ ~a.yes
ConfirmGate(a) == ~a.yes
\* variant: the answer is taken for a confirmation unless it is a refusal
Confirmed_UnlessNo(a) == a.confirm # <<"n", "o">>
\* lines 273-274: input(...).strip(), compared with "YES"
Confirmed(a) == strip(a.confirm, Whitespace) = YES

\* the part of main before the stores are loaded: how it ends
Gates(a) ==
    IF NoSource(a) THEN "error_no_source"
    ELSE IF CollectRawHashes(a) = <<>> THEN "error_no_hashes"
    ELSE IF DryRunGate(a) THEN "dry_run"
    ELSE IF ThresholdGate(a, Locals(a).total_nodes_to_delete) THEN "error_threshold"
    ELSE IF ConfirmGate(a) /\ ~Confirmed(a) THEN "cancelled"
    ELSE "proceed"

\* input() is read only when the prompt is reached
PromptReached(a) ==
    /\ ~NoSource(a) /\ CollectRawHashes(a) # <<>> /\ ~DryRunGate(a)
    /\ ~ThresholdGate(a, Locals(a).total_nodes_to_delete)
    /\ ConfirmGate(a)

\* the run deletes the paragraph just inserted, named by its key or its hash
\* variant: the content is stored once more under a key of its own
Reinsert_FreshKey(t) ==
    LET k == ParagraphKey(Doc(t).idx)
    IN /\ pc = "idle"
       /\ k \in dPg /\ k \in dNodes
       /\ dPg' = dPg \cup {ParagraphKey(AbsentHash)}
       /\ dNodes' = dNodes \cup {ParagraphKey(AbsentHash)}
       /\ rt' = [stage |-> "reinserted", key |-> k, pg |-> dPg, nodes |-> dNodes]
       /\ UNCHANGED <<others, dEnt, dRel, dIdx, dEdges, dCnt,
                      mVars, pc, args, loc, res, outcome, searched, pre>>

\* Content whose key is stored reaches the store again: insert(key, vector,
\* text) overwrites the vector under the key, upsert_paragraph_node is
\* idempotent.
Reinsert(t) ==
    LET k == ParagraphKey(Doc(t).idx)
    IN /\ pc = "idle"
       /\ k \in dPg /\ k \in dNodes
       /\ dPg' = (dPg \ {k}) \cup {k}
       /\ dNodes' = (dNodes \ {k}) \cup {k}
       /\ rt' = [stage |-> "reinserted", key |-> k, pg |-> dPg, nodes |-> dNodes]
       /\ UNCHANGED <<others, dEnt, dRel, dIdx, dEdges, dCnt,
                      mVars, pc, args, loc, res, outcome, searched, pre>>

RoundTripOf(a) ==
    /\ rt.stage = "inserted"
    /\ a.hash_file \in {<<rt.key>>, <<Tail(rt.key)>>}

\* main, lines 92-276: parse, collect, count, dry run, threshold, confirmation
Main_Prepare ==
    /\ pc = "idle"
    /\ \E src \in Sources, ro \in BOOLEAN, dry \in BOOLEAN, y \in BOOLEAN :
       \E de \in (IF src.openie_file = <<>> THEN {FALSE} ELSE BOOLEAN),
          dr \in (IF src.openie_file = <<>> THEN {FALSE} ELSE BOOLEAN) :
         LET a0 == [hash_file |-> src.hash_file, openie_file |-> src.openie_file,
                    search |-> src.search,
                    delete_entities |-> de, delete_relations |-> dr,
                    remove_orphan_entities |-> ro, dry_run |-> dry, yes |-> y,
                    max_delete_nodes |-> MaxDeleteNodes, confirm |-> <<>>]
         IN /\ \A h \in Range(src.search.picks) : ParagraphKey(h) \in dPg
            /\ \E a \in (IF PromptReached(a0)
                         THEN {[a0 EXCEPT !.confirm = ans] : ans \in Answers}
                         ELSE {a0}) :
                 LET g == Gates(a)
                 IN /\ args' = a
                    /\ loc' = IF g \in {"error_no_source", "error_no_hashes"}
                              THEN NoLoc ELSE Locals(a)
                    /\ searched' = a.search.on
                    /\ pre' = Snapshot
                    /\ res' = NoRes
                    /\ IF g = "proceed"
                       THEN pc' = "load" /\ outcome' = "running"
                       ELSE pc' = "ended" /\ outcome' = g
                    /\ rt' = IF g = "proceed" /\ RoundTripOf(a)
                             THEN [rt EXCEPT !.stage = "deleting"] ELSE NoRt
                    /\ UNCHANGED <<others, dVars, mVars>>

MemEmpty ==
    /\ mPg = {} /\ mEnt = {} /\ mRel = {} /\ mIdx = {}
    /\ mNodes = {} /\ mEdges = {} /\ mCnt = ZeroCnt

ClearMem ==
    /\ mPg' = {} /\ mEnt' = {} /\ mRel' = {} /\ mIdx' = {}
    /\ mNodes' = {} /\ mEdges' = {} /\ mCnt' = ZeroCnt

\* embed_manager.load_from_file(); kg_manager.load_from_file()
Main_Load ==
    /\ pc = "load"
    /\ mPg' = dPg /\ mEnt' = dEnt /\ mRel' = dRel /\ mIdx' = dIdx
    /\ mNodes' = dNodes /\ mEdges' = dEdges /\ mCnt' = dCnt
    /\ pc' = "del_vec"
    /\ UNCHANGED <<others, dVars, args, loc, res, outcome, searched, pre, rt>>

\* load_from_file raises: sys.exit(1)
Main_LoadFails ==
    /\ pc = "load"
    /\ pc' = "ended" /\ outcome' = "error_load"
    /\ rt' = NoRt
    /\ UNCHANGED <<others, dVars, mVars, args, loc, res, searched, pre>>

EntKeys(ent_hashes) == [i \in 1..Len(ent_hashes) |-> EntityKey(ent_hashes[i])]
\* variant: relation hashes keyed with the entity prefix
RelKeys_EntityPrefix(rel_hashes) == [i \in 1..Len(rel_hashes) |-> EntityKey(rel_hashes[i])]
RelKeys(rel_hashes) == [i \in 1..Len(rel_hashes) |-> RelationKey(rel_hashes[i])]

\* lines 300-312: delete_items on the paragraph collection, then on the entity
\* collection if ent_hashes, then on the relation collection if rel_hashes
Main_DeleteVectors ==
    /\ pc = "del_vec"
    /\ LET p == delete_items(mPg, loc.keys)
           e == IF loc.ent_hashes # <<>>
                THEN delete_items(mEnt, EntKeys(loc.ent_hashes))
                ELSE [store |-> mEnt, deleted |-> 0, skipped |-> 0]
           r == IF loc.rel_hashes # <<>>
                THEN delete_items(mRel, RelKeys(loc.rel_hashes))
                ELSE [store |-> mRel, deleted |-> 0, skipped |-> 0]
       IN /\ mPg' = p.store /\ mEnt' = e.store /\ mRel' = r.store
          /\ res' = [res EXCEPT !.deleted = p.deleted, !.skipped = p.skipped,
                                !.ent_deleted = e.deleted, !.ent_skipped = e.skipped,
                                !.rel_deleted = r.deleted, !.rel_skipped = r.skipped]
    /\ pc' = "del_kg"
    /\ UNCHANGED <<others, dVars, mIdx, mNodes, mEdges, mCnt, args, loc, outcome, searched, pre, rt>>

\* ent_hashes=ent_hashes if args.delete_entities else None
EntArg(a, ent_hashes) == [given |-> a.delete_entities, val |-> ent_hashes]
\* variant: the orphan sweep is requested only together with entity deletion
RemoveOrphanArg_OnlyWithEntities(a) == a.remove_orphan_entities /\ a.delete_entities
\* remove_orphan_entities=args.remove_orphan_entities
RemoveOrphanArg(a) == a.remove_orphan_entities

\* kg_result = kg_manager.delete_paragraphs(pg_hashes, ent_hashes=..., remove_orphan_entities=...)
Main_DeleteGraph ==
    /\ pc = "del_kg"
    /\ LET g == delete_paragraphs(mNodes, mEdges, mCnt, loc.pg_hashes,
                                  EntArg(args, loc.ent_hashes),
                                  RemoveOrphanArg(args))
       IN /\ mNodes' = g.nodes /\ mEdges' = g.edges /\ mCnt' = g.cnt
          /\ res' = [res EXCEPT !.kg_deleted = g.deleted, !.kg_skipped = g.skipped,
                                !.orphan_removed = g.orphan_removed]
    /\ pc' = "rebuild"
    /\ UNCHANGED <<others, dVars, mPg, mEnt, mRel, mIdx, args, loc, outcome, searched, pre, rt>>

\* variant: the index is left as it was loaded
Main_RebuildIndex_Skipped ==
    /\ pc = "rebuild"
    /\ mIdx' = mIdx
    /\ pc' = "save_emb"
    /\ UNCHANGED <<others, dVars, mPg, mEnt, mRel, mNodes, mEdges, mCnt,
                   args, loc, res, outcome, searched, pre, rt>>

\* embed_manager.rebuild_faiss_index()
Main_RebuildIndex ==
    /\ pc = "rebuild"
    /\ mIdx' = mPg \cup mEnt \cup mRel
    /\ pc' = "save_emb"
    /\ UNCHANGED <<others, dVars, mPg, mEnt, mRel, mNodes, mEdges, mCnt,
                   args, loc, res, outcome, searched, pre, rt>>

\* variant: the graph is saved where the embedding files should be
Main_SaveEmbedding_GraphFirst ==
    /\ pc = "save_emb"
    /\ dNodes' = mNodes /\ dEdges' = mEdges /\ dCnt' = mCnt
    /\ pc' = "save_kg"
    /\ UNCHANGED <<others, dPg, dEnt, dRel, dIdx, mVars, args, loc, res, outcome, searched, pre, rt>>

\* embed_manager.save_to_file()
Main_SaveEmbedding ==
    /\ pc = "save_emb"
    /\ dPg' = mPg /\ dEnt' = mEnt /\ dRel' = mRel /\ dIdx' = mIdx
    /\ pc' = "save_kg"
    /\ UNCHANGED <<others, dNodes, dEdges, dCnt, mVars, args, loc, res, outcome, searched, pre, rt>>

\* kg_manager.save_to_file(); the process ends
Main_SaveGraph ==
    /\ pc = "save_kg"
    /\ dNodes' = mNodes /\ dEdges' = mEdges /\ dCnt' = mCnt
    /\ ClearMem
    /\ pc' = "ended" /\ outcome' = "done"
    /\ rt' = IF rt.stage = "deleting" THEN [rt EXCEPT !.stage = "deleted"] ELSE NoRt
    /\ UNCHANGED <<others, dPg, dEnt, dRel, dIdx, args, loc, res, searched, pre>>

\* the process has ended: its command line, locals and counts are gone
Main_Exit ==
    /\ pc = "ended"
    /\ pc' = "idle"
    /\ args' = NoArgs /\ loc' = NoLoc /\ res' = NoRes
    /\ outcome' = "none" /\ searched' = FALSE /\ pre' = NoSnapshot /\ rt' = NoRt
    /\ UNCHANGED <<others, dVars, mVars>>

\* the process dies between two steps: its managers are lost, the files stay
MutationPcs == {"del_vec", "del_kg", "rebuild", "save_emb", "save_kg"}
Crash ==
    /\ pc \in MutationPcs
    /\ ClearMem
    /\ pc' = "ended" /\ outcome' = "crashed"
    /\ rt' = NoRt
    /\ UNCHANGED <<others, dVars, args, loc, res, searched, pre>>

Init ==
    /\ dPg = {} /\ dEnt = {} /\ dRel = {} /\ dIdx = {}
    /\ dNodes = {} /\ dEdges = {} /\ dCnt = ZeroCnt
    /\ MemEmpty
    /\ pc = "idle" /\ args = NoArgs /\ loc = NoLoc /\ res = NoRes
    /\ outcome = "none" /\ searched = FALSE /\ pre = NoSnapshot /\ rt = NoRt
    /\ ie = IeNone /\ mc = McNone /\ mr = MrNone /\ mt = MtNone
    /\ rx = RxNone /\ cm = CmNone /\ sp = SpNone

Next ==
    \/ \E t \in Texts : Insert(t)
    \/ \E t \in Texts : Reinsert(t)
    \/ Main_Prepare
    \/ Main_Load
    \/ Main_LoadFails
    \/ Main_DeleteVectors
    \/ Main_DeleteGraph
    \/ Main_RebuildIndex
    \/ Main_SaveEmbedding
    \/ Main_SaveGraph
    \/ Main_Exit
    \/ Crash

Spec == Init /\ [][Next]_vars

\* ============================================================== properties
ParagraphNodes(nodes) == {n \in nodes : IsParagraphKey(n)}
EntityNodes(nodes) == {n \in nodes : IsEntityKey(n)}

\* the run went through both saves
Done == pc = "ended" /\ outcome = "done"
\* neither the files nor the managers of the run differ from the start of the run
NothingTouched == Snapshot = pre /\ MemEmpty
\* a request above the threshold without --yes
OverThreshold ==
    /\ pc # "idle"
    /\ loc.total_nodes_to_delete > args.max_delete_nodes
    /\ ~args.yes
TargetsStored == \E k \in Range(loc.keys) : k \in pre.pg

\* C1 as stated: a request with N > max_delete_nodes and no --yes aborts with
\* an error before any store is loaded, and nothing is removed, rebuilt or saved.
C1_SafetyValve_AsStated ==
    OverThreshold =>
        pc = "ended" /\ outcome = "error_threshold" /\ ~searched /\ NothingTouched

\* C1 amended: a request with N > max_delete_nodes and no --yes never reaches
\* the loading of the stores to be mutated and changes nothing: it ends with
\* the threshold error, or, when --dry-run is set, as a dry run.
C1_SafetyValve ==
    OverThreshold =>
        /\ pc = "ended"
        /\ outcome = (IF args.dry_run THEN "dry_run" ELSE "error_threshold")
        /\ NothingTouched

C1_Witness ==
    OverThreshold /\ outcome = "error_threshold" /\ TargetsStored

\* C2: with --dry-run the run only counts and reports, whatever the other
\* flags and the count: collections, graph, index and files are unchanged.
C2_DryRun ==
    (pc # "idle" /\ args.dry_run) =>
        /\ pc = "ended"
        /\ outcome \in {"dry_run", "error_no_source", "error_no_hashes"}
        /\ NothingTouched

C2_Witness ==
    /\ pc = "ended" /\ outcome = "dry_run" /\ TargetsStored
    /\ loc.total_nodes_to_delete > args.max_delete_nodes

\* C3: after a completed deletion with remove_orphan_entities, an entity is
\* absent from the graph exactly when no remaining edge (hence no remaining
\* paragraph, which refers to entities through its edges) references it.
EntityReferenced(edges, n) == \E e \in edges : e[1] = n \/ e[3] = n
C3_OrphanInvariant ==
    (Done /\ args.remove_orphan_entities) =>
        \A n \in EntityKeys : (n \notin dNodes) <=> ~EntityReferenced(dEdges, n)

C3_Witness ==
    /\ Done /\ args.remove_orphan_entities
    /\ res.orphan_removed > 0 /\ EntityNodes(dNodes) # {}

\* C4: from entity parity, after a completed deletion run the entity keys of
\* the entity collection equal the entity node keys of the graph.
C4_EntityParity ==
    (Done /\ pre.ent = EntityNodes(pre.nodes)) => dEnt = EntityNodes(dNodes)

\* C5: from paragraph parity, after a completed deletion run the paragraph
\* keys of the paragraph collection equal the paragraph node keys of the graph.
C5_ParagraphParity ==
    (Done /\ pre.pg = ParagraphNodes(pre.nodes)) => dPg = ParagraphNodes(dNodes)

C5_Witness ==
    /\ Done /\ pre.pg = ParagraphNodes(pre.nodes)
    /\ res.deleted > 0 /\ res.skipped > 0

\* C6: every edge has both endpoints present as entity nodes, and an entity
\* node whose counter is zero has no incoming edge and is referenced by no
\* remaining paragraph; in the saved graph and in the graph of a running script.
Closure(nodes, edges, cnt) ==
    /\ \A e \in edges : e[1] \in EntityNodes(nodes) /\ e[3] \in EntityNodes(nodes)
    /\ \A n \in EntityNodes(nodes) :
         cnt[n] = 0 =>
            /\ ~\E e \in edges : e[3] = n
            /\ ~\E e \in edges : (e[1] = n \/ e[3] = n) /\ e[4] \in nodes
C6_ReferentialClosure ==
    Closure(dNodes, dEdges, dCnt) /\ Closure(mNodes, mEdges, mCnt)

C6_Witness ==
    /\ Done /\ res.kg_deleted > 0 /\ dEdges # {}
    /\ \E n \in EntityNodes(dNodes) : dCnt[n] = 0

\* C7 as stated: inserting a paragraph stored nowhere and then deleting it by
\* its key leaves the paragraph collection and the node set of the graph as
\* they were before the insert.
C7_RoundTrip_AsStated ==
    rt.stage = "deleted" => dPg = rt.pg /\ dNodes = rt.nodes

\* C7 amended: the round trip restores the paragraph collection and the
\* paragraph nodes of the graph; without remove_orphan_entities the entity
\* nodes of the paragraph stay in the graph.
TextOfKey(k) == CHOOSE t \in Texts : ParagraphKey(Doc(t).idx) = k
C7_RoundTrip ==
    rt.stage = "deleted" =>
        /\ dPg = rt.pg
        /\ ParagraphNodes(dNodes) = ParagraphNodes(rt.nodes)
        /\ (~args.remove_orphan_entities =>
                dNodes = rt.nodes \cup DocEntityKeys(TextOfKey(rt.key)))

C7_Witness ==
    rt.stage = "deleted" /\ rt.pg # {} /\ dNodes # rt.nodes

\* C8: the run deletes paragraph t alone, named by its OpenIE document, with
\* delete_entities and remove_orphan_entities; t was completely stored and no
\* other paragraph of the graph refers to its entities or triples.
FullyStored(t) ==
    /\ ParagraphKey(Doc(t).idx) \in pre.pg \cap pre.nodes
    /\ DocEntityKeys(t) \subseteq pre.ent \cap pre.nodes
    /\ DocRelationKeys(t) \subseteq pre.rel
    /\ DocEdges(t) \subseteq pre.edges
Unshared(t) ==
    \A e \in pre.edges \ DocEdges(t) :
        e[1] \notin DocEntityKeys(t) /\ e[3] \notin DocEntityKeys(t)
EndToEndRun(t) ==
    /\ Done /\ args.openie_file = <<t>>
    /\ args.delete_entities /\ args.remove_orphan_entities
    /\ FullyStored(t) /\ Unshared(t)
Deltas(t) ==
    /\ Cardinality(dPg) = Cardinality(pre.pg) - 1
    /\ Cardinality(dEnt) = Cardinality(pre.ent) - Cardinality(DocEntityKeys(t))
    /\ Cardinality(dRel) = Cardinality(pre.rel) - Cardinality(DocRelationKeys(t))
    /\ Cardinality(dNodes) = Cardinality(pre.nodes) - (1 + Cardinality(DocEntityKeys(t)))
    /\ Cardinality(dEdges) = Cardinality(pre.edges) - Cardinality(DocEdges(t))

\* C8 as stated: the deltas are -1 paragraph vector, -(entities) entity
\* vectors, -(triples) relation vectors, -(1 + entities) nodes, -(triples) edges.
C8_EndToEnd_AsStated ==
    \A t \in Texts : EndToEndRun(t) => Deltas(t)

\* C8 amended: the same deltas when delete_relations is set as well and no
\* other entity node of the graph was already without a reference.
NoOtherOrphan(t) ==
    \A n \in EntityNodes(pre.nodes) \ DocEntityKeys(t) : EntityReferenced(pre.edges, n)
C8_EndToEnd ==
    \A t \in Texts :
        (EndToEndRun(t) /\ args.delete_relations /\ NoOtherOrphan(t)) => Deltas(t)

C8_Witness ==
    \E t \in Texts :
        /\ EndToEndRun(t) /\ args.delete_relations /\ NoOtherOrphan(t)
        /\ res.orphan_removed = 2 /\ res.rel_deleted = 1

\* C9: a completed run reports deleted = number of requested paragraphs that
\* were stored, skipped = the rest of the requested keys, and no requested key
\* is left; the same for the counts the graph deletion returns.
RequestedStored(stored) ==
    Cardinality({h \in Range(loc.pg_hashes) : ParagraphKey(h) \in stored})
C9_SkipVersusError ==
    Done =>
        /\ res.deleted = RequestedStored(pre.pg)
        /\ res.skipped = Len(loc.pg_hashes) - RequestedStored(pre.pg)
        /\ res.deleted + res.skipped = Len(loc.keys)
        /\ \A h \in Range(loc.pg_hashes) : ParagraphKey(h) \notin dPg
        /\ res.kg_deleted = RequestedStored(pre.nodes)
        /\ res.kg_deleted + res.kg_skipped = Len(loc.pg_hashes)

C9_Witness ==
    Done /\ res.deleted = 1 /\ res.skipped = 1 /\ AbsentHash \in Range(loc.pg_hashes)

\* C10: the paragraph keys of the paragraph collection are a subset of the
\* paragraph nodes of the graph: in the saved files at every moment, also
\* after a crash, and in the managers of a run at every step after loading.
C10_GraphSuperset ==
    /\ dPg \subseteq ParagraphNodes(dNodes)
    /\ (pc \in MutationPcs => mPg \subseteq ParagraphNodes(mNodes))

C10_Witness ==
    /\ pc = "ended" /\ outcome = "crashed"
    /\ dPg # ParagraphNodes(dNodes) /\ dPg # {}

Inspect_Load == [pg |-> dPg, ent |-> dEnt, rel |-> dRel, idx |-> dIdx,
                 nodes |-> dNodes, edges |-> dEdges, cnt |-> dCnt]

\* what the run in progress is going to leave in the files
PostRun == [pg |-> mPg, ent |-> mEnt, rel |-> mRel, idx |-> mIdx,
            nodes |-> mNodes, edges |-> mEdges, cnt |-> mCnt]

\* C19: a reader that loads the persisted collections and graph while a
\* deletion run is in progress sees the store as it was before the run or
\* as the run leaves it, never the collections saved and the graph not.
C19_ReaderIsolation ==
    pc \in {"load"} \cup MutationPcs => Inspect_Load \in {pre, PostRun}

\* C26: in a run that has loaded both stores, nothing is saved before the
\* index is rebuilt, the rebuilt index covers exactly the collections as the
\* removals left them, the collections are saved with that index, and a
\* completed run has saved the collections and the graph without the
\* requested paragraphs.
Saved(snapshot) ==
    /\ snapshot.pg = mPg /\ snapshot.ent = mEnt /\ snapshot.rel = mRel
    /\ snapshot.idx = mIdx
C26_RebuildThenPersist ==
    /\ pc \in {"del_vec", "del_kg", "rebuild"} => Snapshot = pre
    /\ pc \in {"save_emb", "save_kg"} => mIdx = mPg \cup mEnt \cup mRel
    /\ pc = "save_emb" => Snapshot = pre
    /\ pc = "save_kg" =>
          Saved(Snapshot) /\ dNodes = pre.nodes /\ dEdges = pre.edges /\ dCnt = pre.cnt
    /\ Done =>
          /\ dIdx = dPg \cup dEnt \cup dRel
          /\ dPg = pre.pg \ Range(loc.keys)
          /\ ParagraphNodes(dNodes) =
                 ParagraphNodes(pre.nodes) \ {ParagraphKey(h) : h \in Range(loc.pg_hashes)}
          /\ \A e \in dEdges : e[4] \in ParagraphNodes(dNodes) \/ e[4] \notin pre.nodes

C26_Witness ==
    /\ Done /\ res.deleted > 0 /\ res.kg_deleted > 0 /\ res.ent_deleted > 0
    /\ dIdx # pre.idx /\ dIdx # {}

\* ======================================================================
\* Extraction pipeline: src/chat/knowledge/ie_process.py
\* ======================================================================
\* A Python str is a sequence of characters; every character is written as
\* one token.  mao, mi, dong, wu, chong, de, x stand for ordinary characters;
\* the others are the punctuation and relation words the code names.

\* ------------------------------------------------------------------ bounds
LongLen == 121          \* characters of the long clause of the catalogue:
                        \* one more than max_object_len

max_object_len == 120

\* s.replace(c, "")
RemoveChar(s, c) == SelectSeq(s, LAMBDA ch : ch # c)

startswith(s, p) == Len(p) <= Len(s) /\ SubSeq(s, 1, Len(p)) = p

\* s.find(p): the position (from 1) of the first occurrence, 0 when there is none
find(s, p) ==
    LET at == {i \in 1..(Len(s) - Len(p) + 1) : SubSeq(s, i, i + Len(p) - 1) = p}
    IN IF at = {} THEN 0 ELSE Min(at)

contains(s, p) == find(s, p) # 0

\* re.split(chars, s, maxsplit=1)[0]
BeforeFirst(s, cs) ==
    LET at == {i \in 1..Len(s) : s[i] \in cs}
    IN IF at = {} THEN s ELSE SubSeq(s, 1, Min(at) - 1)

Take(s, n) == SubSeq(s, 1, IF n < Len(s) THEN n ELSE Len(s))

Repeat(c, n) == [i \in 1..n |-> c]

\* ------------------------------------------------------------ JSON values
\* A scalar of a parsed response: a string, null, or a number.
Str(cs) == [k |-> "str", s |-> cs]
Null == [k |-> "null", s |-> <<>>]
Num == [k |-> "num", s |-> <<>>]

Mao == Str(<<"mao">>)
MaoMi == Str(<<"mao", "mi">>)
DongWu == Str(<<"dong", "wu">>)
Shi == Str(<<"shi">>)
Empty == Str(<<>>)
Placeholder == Str(<<"placeholder">>)

\* the denylist imported from the package
INVALID_ENTITY == {Placeholder}

\* an item of a parsed triple list: an array of scalars, or something else
Arr(xs) == [k |-> "list", items |-> xs]
NotArr == [k |-> "other", items |-> <<>>]

\* ------------------------------------------------------------- catalogue
\* Paragraphs handed to info_extract_from_str.
Paragraphs == <<
    \* 1: mao, full-width colon, shi, a clause naming dong wu, full stop
    <<"mao", "colon_cn", "shi", "chong", "wu", "dong", "wu", "period_cn">>,
    \* 2: two entities are prefixes (mao, mao mi); text goes on after the stop
    <<"mao", "mi", "colon_cn", "shi", "dong", "wu", "period_cn", "x">>,
    \* 3: a first clause longer than max_object_len
    <<"mao", "shi">> \o Repeat("x", LongLen) \o <<"period_cn">>,
    \* 4: nothing after the subject
    <<"mao">>,
    \* 5: no entity occurs
    <<"x", "x">>,
    \* 6: the entity occurs inside the text, relation word dai biao follows it
    <<"x", "mao", "dai", "biao", "dong", "wu", "bang">>,
    \* 7: a relation word occurs later in the remainder, not at its start
    <<"mao", "x", "dai", "biao", "dong", "wu", "period_cn">>,
    \* 8: the clause holds quotes only
    <<"mao", "shi", "ldq", "rdq", "period_cn">>,
    \* 9: byte-order mark and blanks around the text
    <<"bom", "space", "mao", "comma", "space", "shi", "dong", "wu", "semi", "nl">>,
    \* 10: the first max_object_len characters of the clause are all de
    <<"mao", "shi">> \o Repeat("de", max_object_len) \o <<"x", "period_cn">> >>

ParagraphIds == 1..Len(Paragraphs)

\* A response of generate_response_async, by what the parser makes of it:
\*   raise    the call raises
\*   none     the text is None
\*   garbage  text without JSON
\*   scalar   a JSON scalar
\*   list     a JSON array of items
\*   dict     a JSON object of nkeys keys; key holds items (an array if val_list)
Resp(kind, n, name, isl, xs) ==
    [k |-> kind, nkeys |-> n, key |-> name, val_list |-> isl, items |-> xs]
Plain(kind) == Resp(kind, 0, "", FALSE, <<>>)
List(xs) == Resp("list", 0, "", TRUE, xs)
Dict(n, name, isl, xs) == Resp("dict", n, name, isl, xs)

EntityLists == {
    <<Mao, DongWu>>, <<DongWu, Mao>>, <<Mao, MaoMi>>, <<MaoMi, Mao>>,
    <<Num, Mao>>, <<Null, Empty, Placeholder, Mao>>,
    <<Null, Empty, Placeholder>>, <<>> }

NerResponses ==
    {Plain("raise"), Plain("none"), Plain("garbage"), Plain("scalar")}
    \cup {List(xs) : xs \in EntityLists}
    \cup {Dict(1, "anything", TRUE, <<Mao, DongWu>>), Dict(1, "anything", TRUE, <<>>),
          Dict(1, "entities", FALSE, <<>>),
          Dict(2, "entities", TRUE, <<DongWu, Mao>>),
          Dict(2, "triples", TRUE, <<Mao, DongWu>>),
          Dict(2, "items", FALSE, <<>>)}

GoodTriple == Arr(<<Mao, Shi, DongWu>>)
TripleLists == {
    <<GoodTriple>>,
    <<GoodTriple, Arr(<<DongWu, Shi, Mao>>)>>,
    <<Arr(<<Mao, Shi>>)>>,                      \* two elements
    <<Arr(<<Mao, Shi, DongWu, DongWu>>)>>,      \* four elements
    <<Arr(<<Mao, Null, DongWu>>)>>,
    <<Arr(<<Mao, Empty, DongWu>>)>>,
    <<Arr(<<Num, Shi, DongWu>>)>>,              \* a number as subject
    <<NotArr>>,
    <<GoodTriple, Arr(<<Mao, Shi>>)>>,
    <<>> }

RdfResponses ==
    {Plain("raise"), Plain("none"), Plain("garbage"), Plain("scalar")}
    \cup {List(xs) : xs \in TripleLists}
    \cup {Dict(1, "anything", TRUE, <<GoodTriple>>), Dict(1, "anything", TRUE, <<>>),
          Dict(1, "triples", FALSE, <<>>),
          Dict(2, "triples", TRUE, <<GoodTriple>>),
          Dict(2, "entities", TRUE, <<GoodTriple>>),
          Dict(2, "data", TRUE, <<>>)}

\* ---------------------------------------------------- _extract_json_from_text
\* lines 14-47: a list, the list wrapped in a one-key object, an object, or []
ParsedList(xs) == [k |-> "list", nkeys |-> 0, key |-> "", val_list |-> TRUE, items |-> xs]
_extract_json_from_text(r) ==
    CASE r.k \in {"none", "garbage", "scalar"} -> ParsedList(<<>>)
      [] r.k = "list" -> ParsedList(r.items)
      [] r.k = "dict" -> IF r.nkeys = 1 /\ r.val_list THEN ParsedList(r.items) ELSE r

\* the list an object holds under one of the accepted keys, lines 75-82 and 164-171
KeyedList(parsed, accepted) ==
    IF parsed.key \in accepted /\ parsed.val_list
    THEN [found |-> TRUE, items |-> parsed.items]
    ELSE [found |-> FALSE, items |-> <<>>]

\* ------------------------------------------------------------ _entity_extract
\* variant: denylisted placeholders pass
EntityFilter_DenylistKept(xs) == SelectSeq(xs, LAMBDA e : e # Null /\ e # Empty)
EntityFilter(xs) ==
    SelectSeq(xs, LAMBDA e : e # Null /\ e # Empty /\ e \notin INVALID_ENTITY)

Raised(why) == [ok |-> FALSE, value |-> <<>>, why |-> why, fallback |-> FALSE]
Returned(v, fb) == [ok |-> TRUE, value |-> v, why |-> "", fallback |-> fb]

_entity_extract(r) ==
    IF r.k = "raise" THEN Raised("call")
    ELSE LET parsed == _extract_json_from_text(r)
             keyed == KeyedList(parsed, {"entities", "result", "data", "items"})
         IN IF parsed.k # "list" /\ ~keyed.found THEN Raised("format")
            ELSE LET xs == EntityFilter(IF parsed.k = "list" THEN parsed.items
                                        ELSE keyed.items)
                 IN IF xs = <<>> THEN Raised("empty") ELSE Returned(xs, FALSE)

\* ------------------------------------------------------ _fallback_rdf_triples
SubjectSeparators == {"colon_cn", "colon", "space", "comma_cn", "comma", "dun", "ideospace"}
relation_candidates == << <<"shi">>, <<"yi", "wei", "zhe">>, <<"dai", "biao">>,
                          <<"shu", "yu">>, <<"zhi">>, <<"ti", "xian">> >>
SentenceTerminators == {"period_cn", "semi_cn", "semi", "bang_cn", "bang"}
ObjectTrim == {"colon_cn", "colon", "space", "comma_cn", "comma",
               "lcb", "rcb", "lwcb", "rwcb", "ldq", "rdq", "dq", "sq"}
CapTrim == {"comma_cn", "comma", "space", "de"}

\* next(entity for entity in entities if ...): str.startswith and the in
\* operator raise TypeError on an entity that is not a str
RECURSIVE FirstEntity(_, _, _)
FirstEntity(es, text, prefix) ==
    IF es = <<>> THEN [st |-> "none", e |-> Null]
    ELSE LET e == Head(es)
         IN IF e.k # "str" THEN [st |-> "raise", e |-> Null]
            ELSE IF (prefix /\ startswith(text, e.s)) \/ (~prefix /\ contains(text, e.s))
                 THEN [st |-> "found", e |-> e]
                 ELSE FirstEntity(Tail(es), text, prefix)

\* variant: the first entity found anywhere, no preference for a prefix
Subject_AnywhereFirst(text, entities) == FirstEntity(entities, text, FALSE)

\* lines 102-107
Subject(text, entities) ==
    LET p == FirstEntity(entities, text, TRUE)
    IN IF p.st = "none" THEN FirstEntity(entities, text, FALSE) ELSE p

\* lines 116-122: the first candidate the remainder starts with, else shi
RECURSIVE Relation(_, _)
Relation(remainder, cands) ==
    IF cands = <<>> THEN [relation |-> <<"shi">>, remainder |-> remainder]
    ELSE IF startswith(remainder, Head(cands))
         THEN [relation |-> Head(cands),
               remainder |-> SubSeq(remainder, Len(Head(cands)) + 1, Len(remainder))]
         ELSE Relation(remainder, Tail(cands))

\* lines 125-133
ObjectText(remainder) ==
    LET object_text == strip(BeforeFirst(remainder, SentenceTerminators), ObjectTrim)
    IN IF Len(object_text) > max_object_len
       THEN rstrip(Take(object_text, max_object_len), CapTrim)
       ELSE object_text

FallbackNothing == [raised |-> FALSE, triples |-> <<>>]

_fallback_rdf_triples(paragraph, entities) ==
    LET text == strip(RemoveChar(paragraph, "bom"), Whitespace)
    IN IF text = <<>> \/ entities = <<>> THEN FallbackNothing
       ELSE LET subj == Subject(text, entities)
            IN IF subj.st = "raise" THEN [raised |-> TRUE, triples |-> <<>>]
               ELSE IF subj.st = "none" THEN FallbackNothing
               ELSE LET subject == subj.e.s
                        subject_index == find(text, subject)
                        remainder == lstrip(SubSeq(text, subject_index + Len(subject),
                                                   Len(text)), SubjectSeparators)
                        rel == Relation(remainder, relation_candidates)
                        first == strip(BeforeFirst(rel.remainder, SentenceTerminators),
                                       ObjectTrim)
                    IN IF remainder = <<>> \/ first = <<>> THEN FallbackNothing
                       ELSE [raised |-> FALSE,
                             triples |-> <<Arr(<<subj.e, Str(rel.relation),
                                                 Str(ObjectText(rel.remainder))>>)>>]

\* --------------------------------------------------------- _rdf_triple_extract
\* lines 182-189
ValidTriple(triple) ==
    /\ triple.k = "list"
    /\ Len(triple.items) = 3
    /\ \A i \in 1..3 : triple.items[i] # Null
    /\ \A i \in 1..3 : triple.items[i] # Empty

_rdf_triple_extract(r, paragraph, entities) ==
    IF r.k = "raise" THEN Raised("call")
    ELSE LET parsed == _extract_json_from_text(r)
             keyed == KeyedList(parsed, {"triples", "result", "data", "items"})
         IN IF parsed.k # "list" /\ ~keyed.found THEN Raised("format")
            ELSE LET listed == IF parsed.k = "list" THEN parsed.items ELSE keyed.items
                     fb == _fallback_rdf_triples(paragraph, entities)
                     rdf_triple_result == IF listed = <<>> THEN fb.triples ELSE listed
                 IN IF listed = <<>> /\ fb.raised THEN Raised("fallback")
                    ELSE IF rdf_triple_result = <<>> THEN Raised("empty")
                    ELSE IF \E i \in 1..Len(rdf_triple_result) :
                                ~ValidTriple(rdf_triple_result[i])
                         THEN Raised("shape")
                         ELSE Returned(rdf_triple_result, listed = <<>>)

\* ------------------------------------------------------ info_extract_from_str
\* Fields of ie: pc, the position in the function; paragraph, try_count and
\* entity_extract_result, its argument and locals; returned, entities and
\* triples, the value it returned.  History: log, the LLM calls ("ner", "rdf")
\* and the time.sleep calls in order; clock, the time slept; last_error, why
\* the latest attempt of the stage failed; rdf_garbled, every response of the
\* relation model so far was None or text without JSON; rdf_entities, the
\* entity lists handed to it; fallback, whether the returned triples come
\* from _fallback_rdf_triples.
\* variant: one attempt fewer
MaxTries_Two == 3 - 1
MaxTries == 3
RetryDelay == 5

\* lines 194-197
IE_Call(p) ==
    /\ ie.pc = "idle"
    /\ \E loop_running \in BOOLEAN :
         ie' = [IeNone EXCEPT !.pc = "ner", !.paragraph = p,
                              !.loop_running = loop_running]
    /\ UNCHANGED <<delVars, mc, mr, mt, more>>

\* variant: line 212 is missing, the relation stage goes on with the count of
\* the entity stage
IE_EntityAttempt_SharedBudget ==
    /\ ie.pc = "ner" /\ ~ie.loop_running
    /\ \E r \in NerResponses :
         LET out == _entity_extract(r)
             called == [ie EXCEPT !.log = Append(@, "ner")]
         IN ie' = IF out.ok
                  THEN [called EXCEPT !.entity_extract_result = out.value,
                                      !.last_error = "", !.pc = "rdf"]
                  ELSE LET failed == [called EXCEPT !.try_count = @ + 1,
                                                    !.last_error = out.why]
                       IN IF failed.try_count < MaxTries
                          THEN [failed EXCEPT !.pc = "ner_sleep"]
                          ELSE [failed EXCEPT !.pc = "returned", !.returned = "none"]
    /\ UNCHANGED <<delVars, mc, mr, mt, more>>

\* lines 198-210, one turn of the loop up to the sleep; line 212 on success
IE_EntityAttempt ==
    /\ ie.pc = "ner" /\ ~ie.loop_running
    /\ \E r \in NerResponses :
         LET out == _entity_extract(r)
             called == [ie EXCEPT !.log = Append(@, "ner")]
         IN ie' = IF out.ok
                  THEN [called EXCEPT !.entity_extract_result = out.value,
                                      !.try_count = 0, !.last_error = "",
                                      !.pc = "rdf"]
                  ELSE LET failed == [called EXCEPT !.try_count = @ + 1,
                                                    !.last_error = out.why]
                       IN IF failed.try_count < MaxTries
                          THEN [failed EXCEPT !.pc = "ner_sleep"]
                          ELSE [failed EXCEPT !.pc = "returned", !.returned = "none"]
    /\ UNCHANGED <<delVars, mc, mr, mt, more>>

\* line 207
IE_EntitySleep ==
    /\ ie.pc = "ner_sleep"
    /\ ie' = [ie EXCEPT !.clock = @ + RetryDelay, !.log = Append(@, "sleep"),
                        !.pc = "ner"]
    /\ UNCHANGED <<delVars, mc, mr, mt, more>>

\* variant: on exhaustion the entities are returned with no triples
IE_TripleAttempt_KeepsEntities ==
    /\ ie.pc = "rdf" /\ ~ie.loop_running
    /\ \E r \in RdfResponses :
         LET out == _rdf_triple_extract(r, Paragraphs[ie.paragraph],
                                        ie.entity_extract_result)
             called == [ie EXCEPT !.log = Append(@, "rdf"),
                                  !.rdf_garbled = @ /\ r.k \in {"none", "garbage"},
                                  !.rdf_entities = @ \cup {ie.entity_extract_result}]
         IN ie' = IF out.ok
                  THEN [called EXCEPT !.pc = "returned", !.returned = "pair",
                                      !.entities = ie.entity_extract_result,
                                      !.triples = out.value,
                                      !.fallback = out.fallback]
                  ELSE LET failed == [called EXCEPT !.try_count = @ + 1,
                                                    !.last_error = out.why]
                       IN IF failed.try_count < MaxTries
                          THEN [failed EXCEPT !.pc = "rdf_sleep"]
                          ELSE [failed EXCEPT !.pc = "returned", !.returned = "pair",
                                              !.entities = ie.entity_extract_result]
    /\ UNCHANGED <<delVars, mc, mr, mt, more>>

\* lines 213-227, one turn of the loop up to the sleep; line 227 on success
IE_TripleAttempt ==
    /\ ie.pc = "rdf" /\ ~ie.loop_running
    /\ \E r \in RdfResponses :
         LET out == _rdf_triple_extract(r, Paragraphs[ie.paragraph],
                                        ie.entity_extract_result)
             called == [ie EXCEPT !.log = Append(@, "rdf"),
                                  !.rdf_garbled = @ /\ r.k \in {"none", "garbage"},
                                  !.rdf_entities = @ \cup {ie.entity_extract_result}]
         IN ie' = IF out.ok
                  THEN [called EXCEPT !.pc = "returned", !.returned = "pair",
                                      !.entities = ie.entity_extract_result,
                                      !.triples = out.value,
                                      !.fallback = out.fallback]
                  ELSE LET failed == [called EXCEPT !.try_count = @ + 1,
                                                    !.last_error = out.why]
                       IN IF failed.try_count < MaxTries
                          THEN [failed EXCEPT !.pc = "rdf_sleep"]
                          ELSE [failed EXCEPT !.pc = "returned", !.returned = "none"]
    /\ UNCHANGED <<delVars, mc, mr, mt, more>>

\* line 222
IE_TripleSleep ==
    /\ ie.pc = "rdf_sleep"
    /\ ie' = [ie EXCEPT !.clock = @ + RetryDelay, !.log = Append(@, "sleep"),
                        !.pc = "rdf"]
    /\ UNCHANGED <<delVars, mc, mr, mt, more>>

\* lines 57-60 and 146-149 with an event loop running in the calling
\* thread: the request is queued on that loop and the thread, which is the
\* one that runs the loop, waits in future.result() for it
IE_AwaitOwnLoop ==
    /\ ie.pc \in {"ner", "rdf"} /\ ie.loop_running
    /\ ie' = [ie EXCEPT !.pc = "waiting"]
    /\ UNCHANGED <<delVars, mc, mr, mt, more>>

\* the caller has taken the result
IE_Done ==
    /\ ie.pc = "returned"
    /\ ie' = IeNone
    /\ UNCHANGED <<delVars, mc, mr, mt, more>>

NextIE ==
    \/ \E p \in ParagraphIds : IE_Call(p)
    \/ IE_EntityAttempt
    \/ IE_EntitySleep
    \/ IE_TripleAttempt
    \/ IE_TripleSleep
    \/ IE_AwaitOwnLoop
    \/ IE_Done

SpecIE == Init /\ [][NextIE]_vars

Count(s, x) == Cardinality({i \in 1..Len(s) : s[i] = x})

\* ------------------------------------------------- extraction: properties
NerCalls == Count(ie.log, "ner")
RdfCalls == Count(ie.log, "rdf")
Sleeps == Count(ie.log, "sleep")

EntityStage == ie.pc \in {"ner", "ner_sleep"}
EntityStageFailed == ie.pc = "returned" /\ ie.entity_extract_result = <<>>
RelationStageFailed ==
    ie.pc = "returned" /\ ie.returned = "none" /\ ie.entity_extract_result # <<>>

\* C11: when no entity-extraction attempt yields a usable list, the entity
\* model is called exactly 3 times, with a 5-unit delay between consecutive
\* attempts and none after the last, the function returns (None, None), and
\* the relation model is never called.
C11_EntityRetryCeiling ==
    /\ (EntityStage \/ EntityStageFailed) =>
          /\ RdfCalls = 0
          /\ NerCalls = ie.try_count
          /\ ie.try_count <= 3
          /\ ie.clock = 5 * Sleeps
    /\ EntityStageFailed =>
          /\ ie.returned = "none"
          /\ ie.log = <<"ner", "sleep", "ner", "sleep", "ner">>
          /\ ie.clock = 10

C11_Witness == EntityStageFailed /\ ie.last_error = "empty" /\ NerCalls = 3

\* C12: when the relation model always returns None or unparseable text, the
\* call is attempted exactly 3 times and the function reports failure; such a
\* response never leads to a successful result.
C12_RelationMalformedRetried ==
    (ie.pc = "returned" /\ RdfCalls >= 1 /\ ie.rdf_garbled) =>
        (ie.returned = "none" /\ RdfCalls = 3)

\* C13: the relation stage has its own 3 attempts and 5-unit delays whatever
\* the entity stage used; the entity model is not called again once it has
\* succeeded; every relation attempt gets the same entity list; at most 6 LLM
\* calls and 4 delays per paragraph.
C13_IndependentBudgets ==
    /\ NerCalls <= 3 /\ RdfCalls <= 3
    /\ NerCalls + RdfCalls <= 6 /\ Sleeps <= 4
    /\ ie.clock = 5 * Sleeps
    /\ \A i, j \in 1..Len(ie.log) : (i < j /\ ie.log[i] = "rdf") => ie.log[j] # "ner"
    /\ ie.rdf_entities \subseteq {ie.entity_extract_result}
    /\ ie.pc \in {"rdf", "rdf_sleep"} => RdfCalls = ie.try_count
    /\ RelationStageFailed =>
          /\ RdfCalls = 3
          /\ NerCalls \in 1..3
          /\ Sleeps = (NerCalls - 1) + 2

C13_Witness == RelationStageFailed /\ NerCalls = 3 /\ RdfCalls = 3 /\ Sleeps = 4

\* C14: info_extract_from_str returns (None, None) or a pair whose entity list
\* and triple list are both non-empty; when the relation stage exhausts its
\* retries the extracted entities are not returned.
C14_NoPartialResult ==
    ie.pc = "returned" =>
        \/ ie.returned = "none" /\ ie.entities = <<>> /\ ie.triples = <<>>
        \/ ie.returned = "pair" /\ ie.entities # <<>> /\ ie.triples # <<>>

C14_Witness == RelationStageFailed /\ ie.entities = <<>>

\* C15: every item of a returned triple list is an array of exactly 3
\* non-null, non-empty strings.
StringTriple(triple) ==
    /\ triple.k = "list"
    /\ Len(triple.items) = 3
    /\ \A i \in 1..3 : triple.items[i].k = "str" /\ triple.items[i].s # <<>>

C15_TripleShape ==
    (ie.pc = "returned" /\ ie.returned = "pair") =>
        \A i \in 1..Len(ie.triples) : StringTriple(ie.triples[i])

\* C16: an entity list produced by a successful entity extraction is non-empty
\* and holds no null, no empty string and no denylisted placeholder; a
\* response whose list is empty after filtering is a failed attempt.
Filtered(xs) ==
    /\ xs # <<>>
    /\ \A i \in 1..Len(xs) : xs[i] # Null /\ xs[i] # Empty /\ xs[i] \notin INVALID_ENTITY

C16_EntityFiltering ==
    /\ (ie.pc \in {"rdf", "rdf_sleep"} \/ ie.entity_extract_result # <<>>) =>
          Filtered(ie.entity_extract_result)
    /\ ie.returned = "pair" => Filtered(ie.entities)
    /\ EntityStage =>
          \A r \in NerResponses :
              (r.k = "list" /\ \A i \in 1..Len(r.items) :
                                  r.items[i] \in {Null, Empty} \cup INVALID_ENTITY)
                  => ~_entity_extract(r).ok

C16_Witness == ie.pc = "rdf" /\ ie.entity_extract_result = <<Mao>>

\* What the paragraph looks like from entity e on: e, separator punctuation,
\* a relation word, a clause, a sentence terminator.
Shape(paragraph, e) ==
    LET rest == SubSeq(paragraph, Len(e.s) + 1, Len(paragraph))
        afterSeps == lstrip(rest, SubjectSeparators)
        rels == {i \in 1..Len(relation_candidates) :
                    startswith(afterSeps, relation_candidates[i])}
        rel == relation_candidates[Min(rels)]
        afterRel == SubSeq(afterSeps, Len(rel) + 1, Len(afterSeps))
        clause == BeforeFirst(afterRel, SentenceTerminators)
    IN IF e.k = "str" /\ startswith(paragraph, e.s)
          /\ Len(afterSeps) < Len(rest) /\ rels # {}
       THEN [fits |-> Len(clause) < Len(afterRel) /\ strip(clause, ObjectTrim) # <<>>,
             relation |-> rel, object |-> strip(clause, ObjectTrim)]
       ELSE [fits |-> FALSE, relation |-> <<>>, object |-> <<>>]

ExpectedFallback(paragraph, e) ==
    Returned(<<Arr(<<e, Str(Shape(paragraph, e).relation),
                     Str(Shape(paragraph, e).object)>>)>>, TRUE)

EmptyListAnswer(paragraph, entities) ==
    _rdf_triple_extract(List(<<>>), paragraph, entities)

\* C17 as stated: whenever the relation model returns an empty list and the
\* paragraph starts with one of the entities followed by separators, a
\* relation word and a terminated clause, the stage returns exactly the
\* triple [that entity, the relation word, the trimmed clause].
C17_Fallback_AsStated ==
    ie.pc = "rdf" =>
        LET paragraph == Paragraphs[ie.paragraph]
            entities == ie.entity_extract_result
        IN \A i \in 1..Len(entities) :
              Shape(paragraph, entities[i]).fits =>
                  EmptyListAnswer(paragraph, entities) =
                      ExpectedFallback(paragraph, entities[i])

\* C17: the same for the first entity of the list that is a prefix of the
\* paragraph, when the entities before it in the list are strings and the
\* trimmed clause has at most max_object_len characters; an entity that
\* occurs elsewhere in the paragraph and stands earlier in the list does not
\* become the subject.
FirstPrefix(paragraph, entities, i) ==
    \A j \in 1..(i - 1) : entities[j].k = "str" /\ ~startswith(paragraph, entities[j].s)

C17_Fallback ==
    ie.pc = "rdf" =>
        LET paragraph == Paragraphs[ie.paragraph]
            entities == ie.entity_extract_result
        IN \A i \in 1..Len(entities) :
              ( /\ Shape(paragraph, entities[i]).fits
                /\ FirstPrefix(paragraph, entities, i)
                /\ Len(Shape(paragraph, entities[i]).object) <= max_object_len )
              => EmptyListAnswer(paragraph, entities) =
                     ExpectedFallback(paragraph, entities[i])

C17_Witness ==
    /\ ie.pc = "returned" /\ ie.fallback /\ ie.paragraph = 1
    /\ ie.entities = <<DongWu, Mao>>
    /\ ie.triples = <<Arr(<<Mao, Shi, Str(<<"chong", "wu", "dong", "wu">>)>>)>>
    /\ ~ie.rdf_garbled

\* the list a response is parsed to, lines 157-171, when there is one
ListedItems(r) ==
    LET parsed == _extract_json_from_text(r)
        keyed == KeyedList(parsed, {"triples", "result", "data", "items"})
    IN [found |-> r.k # "raise" /\ (parsed.k = "list" \/ keyed.found),
        items |-> IF parsed.k = "list" THEN parsed.items ELSE keyed.items]

ZeroValidTriples(r) ==
    /\ ListedItems(r).found
    /\ \A i \in 1..Len(ListedItems(r).items) : ~StringTriple(ListedItems(r).items[i])

\* C24: a relation response that holds no valid triple (an empty list, or a
\* list none of whose items is an array of 3 non-empty strings) gets the
\* result of the fallback: the attempt returns the fallback triple when the
\* fallback yields one and fails only when the fallback yields nothing.
C24_FallbackOnZeroValid ==
    ie.pc = "rdf" =>
        LET paragraph == Paragraphs[ie.paragraph]
            entities == ie.entity_extract_result
        IN \A r \in RdfResponses :
              ZeroValidTriples(r) =>
                  LET out == _rdf_triple_extract(r, paragraph, entities)
                  IN /\ out.ok = EmptyListAnswer(paragraph, entities).ok
                     /\ out.value = EmptyListAnswer(paragraph, entities).value

\* the remainder split at the first occurrence of a relation word
FirstOccurrence(remainder) ==
    LET occ == {i \in 1..Len(relation_candidates) :
                   contains(remainder, relation_candidates[i])}
        w == CHOOSE i \in occ : \A j \in occ :
                 find(remainder, relation_candidates[i])
                     <= find(remainder, relation_candidates[j])
        word == relation_candidates[w]
    IN IF occ = {} THEN [relation |-> <<"shi">>, rest |-> remainder]
       ELSE [relation |-> word,
             rest |-> SubSeq(remainder, find(remainder, word) + Len(word),
                             Len(remainder))]

\* C25: the triple of the fallback has as predicate the relation word that
\* occurs first in the text after the subject, and as object the clause right
\* after that word; the predicate is the default shi only when no relation
\* word occurs in that text.
C25_PredicateSplit ==
    ie.pc = "rdf" =>
        LET paragraph == Paragraphs[ie.paragraph]
            answer == EmptyListAnswer(paragraph, ie.entity_extract_result)
            triple == answer.value[1].items
            text == strip(RemoveChar(paragraph, "bom"), Whitespace)
            after == SubSeq(text, find(text, triple[1].s) + Len(triple[1].s), Len(text))
            split == FirstOccurrence(lstrip(after, SubjectSeparators))
        IN answer.ok =>
              /\ triple[2] = Str(split.relation)
              /\ triple[3] = Str(ObjectText(split.rest))

\* ======================================================================
\* Model performance cache: src/llm_models/model_performance_cache.py
\* ======================================================================
\* Fields of mc: file, the cache file; tmp, the temporary file next to it;
\* inst, whether ModelPerformanceCache._instance is set; data, dirty and
\* last_dump_ts, the fields of the object; now, time.time(); error, the
\* exception that left instance(); records, the record calls made so far.

\* -------------------------------------------------------------------- _load
\* lines 44-52
Converted(o) ==
    [k \in CacheKeys |->
        IF o[k].st # "dict" THEN NoValue
        ELSE DictValue([m \in ModelNames |->
                           IF o[k].models[m].st = "dict" THEN o[k].models[m]
                           ELSE NoMetrics])]

\* variant: the exception of open or json.load is not caught
_load_Uncaught(f) ==
    CASE f.kind = "missing" -> [raised |-> FALSE, data |-> EmptyObject]
      [] f.kind \in {"unreadable", "badjson"} -> [raised |-> TRUE, data |-> EmptyObject]
      [] f.kind = "nonobject" -> [raised |-> FALSE, data |-> EmptyObject]
      [] f.kind = "object" -> [raised |-> FALSE, data |-> Converted(f.obj)]

\* a file that holds what a dump writes: an object of objects of objects
WellFormed(f) ==
    /\ f.kind = "object"
    /\ \A k \in CacheKeys :
          /\ f.obj[k].st \in {"absent", "dict"}
          /\ \A m \in ModelNames : f.obj[k].models[m].st \in {"absent", "dict"}

\* what a reader of the cache file gets: no file counts as no data
FileContent(f) == IF f.kind = "missing" THEN EmptyObject ELSE f.obj

\* the file is missing or well formed
Sound(f) == f.kind = "missing" \/ WellFormed(f)

\* lines 36-56
_load(f) ==
    CASE f.kind = "missing" -> [raised |-> FALSE, data |-> EmptyObject]
      [] f.kind \in {"unreadable", "badjson"} -> [raised |-> FALSE, data |-> EmptyObject]
      [] f.kind = "nonobject" -> [raised |-> FALSE, data |-> EmptyObject]
      [] f.kind = "object" -> [raised |-> FALSE, data |-> Converted(f.obj)]

\* ------------------------------------------------------------ _flush_locked
\* How the write goes: ok, or the step that raises; and whether os.remove of
\* the temporary file succeeds.
FlushOutcomes == {"ok", "open_fails", "dump_fails", "replace_fails"}
RemoveOutcomes(w) == IF w = "ok" THEN {TRUE} ELSE BOOLEAN
\* the outcomes to draw for a call on object c: one when nothing is written
WriteOutcomes(c, marks) ==
    IF (marks /\ c.now - c.last_dump_ts >= FlushInterval) \/ (~marks /\ c.dirty)
    THEN FlushOutcomes ELSE {"ok"}

\* variant: the time of the dump is noted before the file is written
_flush_locked_StampedEarly(c, w, removed) ==
    IF ~c.dirty THEN [c EXCEPT !.tried = FALSE, !.wrote = FALSE]
    ELSE IF w = "ok"
         THEN [c EXCEPT !.file = File("object", c.data), !.tmp = "absent",
                        !.dirty = FALSE, !.last_dump_ts = c.now,
                        !.tried = TRUE, !.wrote = TRUE]
         ELSE LET written == IF w = "open_fails" THEN c.tmp ELSE "present"
              IN [c EXCEPT !.tmp = IF written = "present" /\ removed THEN "absent"
                                   ELSE written,
                           !.last_dump_ts = c.now,
                           !.tried = TRUE, !.wrote = FALSE]

\* variant: the dirty flag is cleared before the file is written
_flush_locked_ClearedEarly(c, w, removed) ==
    IF ~c.dirty THEN [c EXCEPT !.tried = FALSE, !.wrote = FALSE]
    ELSE IF w = "ok"
         THEN [c EXCEPT !.file = File("object", c.data), !.tmp = "absent",
                        !.dirty = FALSE, !.last_dump_ts = c.now,
                        !.tried = TRUE, !.wrote = TRUE]
         ELSE LET written == IF w = "open_fails" THEN c.tmp ELSE "present"
              IN [c EXCEPT !.tmp = IF written = "present" /\ removed THEN "absent"
                                   ELSE written,
                           !.dirty = FALSE,
                           !.tried = TRUE, !.wrote = FALSE]

\* lines 62-78; tried and wrote: whether this call opened the temporary file
\* and whether it replaced the cache file
_flush_locked(c, w, removed) ==
    IF ~c.dirty THEN [c EXCEPT !.tried = FALSE, !.wrote = FALSE]
    ELSE IF w = "ok"
         THEN [c EXCEPT !.file = File("object", c.data), !.tmp = "absent",
                        !.dirty = FALSE, !.last_dump_ts = c.now,
                        !.tried = TRUE, !.wrote = TRUE]
         ELSE LET written == IF w = "open_fails" THEN c.tmp ELSE "present"
              IN [c EXCEPT !.tmp = IF written = "present" /\ removed THEN "absent"
                                   ELSE written,
                           !.tried = TRUE, !.wrote = FALSE]

\* variant: every record call flushes
_mark_dirty_locked_NoInterval(c, w, removed) ==
    _flush_locked([c EXCEPT !.dirty = TRUE, !.tried = FALSE, !.wrote = FALSE], w, removed)

\* lines 143-147
_mark_dirty_locked(c, w, removed) ==
    LET d == [c EXCEPT !.dirty = TRUE, !.tried = FALSE, !.wrote = FALSE]
    IN IF d.now - d.last_dump_ts >= FlushInterval THEN _flush_locked(d, w, removed)
       ELSE d

\* What a call of record_success, record_failure or flush leaves to be
\* remembered: its name; was_dirty, the dirty flag when it was made; kept,
\* whether the flush left file, data, dirty flag and last-dump time as it got
\* them; gap and rgap, the time since the latest successful dump of the
\* object and since its latest dump out of a record call (-1: none yet);
\* retry_due, whether the latest flush attempt before the call had failed.
Remembered(name, before, handed, after) ==
    [after EXCEPT !.calls =
        [last |-> name,
         was_dirty |-> before.dirty,
         kept |-> /\ after.file = before.file
                  /\ after.data = handed.data
                  /\ after.dirty = handed.dirty
                  /\ after.last_dump_ts = before.last_dump_ts,
         gap |-> IF before.calls.dump_time < 0 THEN -1
                 ELSE after.now - before.calls.dump_time,
         rgap |-> IF before.calls.rdump_time < 0 THEN -1
                  ELSE after.now - before.calls.rdump_time,
         retry_due |-> before.calls.retry,
         retry |-> IF after.tried THEN ~after.wrote ELSE before.calls.retry,
         dump_time |-> IF after.wrote THEN after.now ELSE before.calls.dump_time,
         rdump_time |-> IF after.wrote /\ name = "record" THEN after.now
                        ELSE before.calls.rdump_time]]

\* lines 85-101
_get_or_create_entry(data, cache_key, model_name) ==
    IF data[cache_key].st = "dict" /\ data[cache_key].models[model_name].st = "dict"
    THEN data[cache_key].models[model_name]
    ELSE NewEntry

\* stats[model_name] = entry, the entry being the object that is updated
PutEntry(data, cache_key, model_name, entry) ==
    LET stats == IF data[cache_key].st = "dict" THEN data[cache_key].models ELSE NoModels
    IN [data EXCEPT ![cache_key] = DictValue([stats EXCEPT ![model_name] = entry])]

Clamp0(latency) == IF latency > 0 THEN latency ELSE 0
AtMost(x, cap) == IF x < cap THEN x ELSE cap

\* error_message[-256:]
LastChars(msg, n) == [msg EXCEPT !.len = AtMost(@, n)]

\* -------------------------------------------------------------- operations
\* instance(), lines 25-34, with __init__, lines 18-23
MC_Instance ==
    /\ ~mc.inst /\ mc.error = ""
    /\ \E dirs_ok \in BOOLEAN :
         LET ld == _load(mc.file)
         IN mc' = IF ~dirs_ok THEN [mc EXCEPT !.error = "makedirs"]
                  ELSE IF ld.raised THEN [mc EXCEPT !.error = "load"]
                  ELSE [mc EXCEPT !.inst = TRUE, !.data = ld.data,
                                  !.last_dump_ts = 0, !.dirty = FALSE]
    /\ UNCHANGED <<delVars, ie, mr, mt, more>>

\* record_success, lines 103-120
MC_RecordSuccess(cache_key, model_name, latency) ==
    /\ mc.inst /\ mc.records < MaxRecords
    /\ \E w \in WriteOutcomes(mc, TRUE) : \E removed \in RemoveOutcomes(w) :
         LET entry == _get_or_create_entry(mc.data, cache_key, model_name)
             prev_avg == entry.avg_latency
             updated == [entry EXCEPT
                 !.last_call_ts = mc.now,
                 !.last_success_ts = mc.now,
                 !.last_latency = Clamp0(latency),
                 !.success_count = AtMost(@ + 1, SuccessCap),
                 !.consecutive_failures = 0,
                 !.avg_latency = IF prev_avg <= 0 THEN Clamp0(latency)
                                 ELSE (prev_avg * 7 + Clamp0(latency) * 3) \div 10]
             handed == [mc EXCEPT !.data = PutEntry(@, cache_key, model_name, updated),
                                  !.records = @ + 1, !.dirty = TRUE]
         IN mc' = Remembered("record", mc, handed,
                             _mark_dirty_locked(handed, w, removed))
    /\ UNCHANGED <<delVars, ie, mr, mt, more>>

\* record_failure, lines 122-141
MC_RecordFailure(cache_key, model_name, latency, error_message) ==
    /\ mc.inst /\ mc.records < MaxRecords
    /\ \E w \in WriteOutcomes(mc, TRUE) : \E removed \in RemoveOutcomes(w) :
         LET entry == _get_or_create_entry(mc.data, cache_key, model_name)
             prev_avg == entry.avg_latency
             penalty_latency == IF latency > 0 THEN Clamp0(latency) ELSE Milli(10)
             updated == [entry EXCEPT
                 !.last_call_ts = mc.now,
                 !.last_fail_ts = mc.now,
                 !.last_latency = Clamp0(latency),
                 !.fail_count = AtMost(@ + 1, SuccessCap),
                 !.consecutive_failures = AtMost(@ + 1, ConsecutiveCap),
                 !.last_error = LastChars(error_message, ErrorTail),
                 !.avg_latency = IF prev_avg <= 0 THEN penalty_latency
                                 ELSE (prev_avg * 5 + penalty_latency * 5) \div 10]
             handed == [mc EXCEPT !.data = PutEntry(@, cache_key, model_name, updated),
                                  !.records = @ + 1, !.dirty = TRUE]
         IN mc' = Remembered("record", mc, handed,
                             _mark_dirty_locked(handed, w, removed))
    /\ UNCHANGED <<delVars, ie, mr, mt, more>>

\* flush, lines 58-60
MC_Flush ==
    /\ mc.inst
    /\ \E w \in WriteOutcomes(mc, FALSE) : \E removed \in RemoveOutcomes(w) :
         mc' = Remembered("flush", mc, mc, _flush_locked(mc, w, removed))
    /\ UNCHANGED <<delVars, ie, mr, mt, more>>

\* time passes
MC_Tick ==
    /\ \E d \in TickSteps :
         /\ mc.now + d <= StartTime + MaxElapsed
         /\ mc' = [mc EXCEPT !.now = @ + d]
    /\ UNCHANGED <<delVars, ie, mr, mt, more>>

\* the process ends: flush registered with atexit (line 33) runs, the object
\* is gone, the files stay
MC_ProcessExit ==
    /\ mc.inst \/ mc.error # ""
    /\ \E w \in WriteOutcomes(mc, FALSE) : \E removed \in RemoveOutcomes(w) :
         LET f == IF mc.inst THEN _flush_locked(mc, w, removed) ELSE mc
         IN mc' = [f EXCEPT !.inst = FALSE, !.data = EmptyObject, !.dirty = FALSE,
                            !.last_dump_ts = 0, !.error = "",
                            !.tried = FALSE, !.wrote = FALSE, !.calls = NoCalls]
    /\ UNCHANGED <<delVars, ie, mr, mt, more>>

\* between two processes something else leaves a file where the cache file
\* is looked for
MC_FileAppears(f) ==
    /\ ~mc.inst /\ mc.error = "" /\ mc.file = MissingFile
    /\ mc' = [mc EXCEPT !.file = f]
    /\ UNCHANGED <<delVars, ie, mr, mt, more>>

NextCache ==
    \/ MC_Instance
    \/ \E k \in RecordKeys, m \in RecordModels, l \in Latencies : MC_RecordSuccess(k, m, l)
    \/ \E k \in RecordKeys, m \in RecordModels, l \in FailureLatencies, e \in ErrorMessages :
          MC_RecordFailure(k, m, l, e)
    \/ MC_Flush
    \/ MC_Tick
    \/ MC_ProcessExit
    \/ \E f \in FileCatalogue : MC_FileAppears(f)

SpecCache == Init /\ [][NextCache]_vars

\* ------------------------------------------------------- cache: properties
\* C20: constructing the cache never raises; from a cache file that is
\* missing, unreadable, not valid JSON or not a JSON object the cache starts
\* empty.
C20_LoadNeverFails ==
    /\ mc.error # "load"
    /\ \A f \in FileCatalogue \cup {mc.file} :
          /\ ~_load(f).raised
          /\ f.kind # "object" => _load(f).data = EmptyObject
    /\ (mc.inst /\ mc.records = 0 /\ mc.file.kind # "object") => mc.data = EmptyObject

C20_Witness ==
    /\ mc.inst /\ mc.records = 0 /\ mc.file.kind = "badjson"
    /\ mc.data = EmptyObject /\ ~mc.dirty

\* C27: a record call opens the temporary file only when at least 5 time
\* units have passed since the latest successful dump of the object (the
\* cache is dirty by then); two dumps out of record calls are at least 5 units
\* apart; flush() on a clean cache writes nothing.
C27_FlushGating ==
    /\ (mc.calls.last = "record" /\ mc.tried) =>
          (mc.dirty \/ mc.wrote) /\ (mc.calls.gap = -1 \/ mc.calls.gap >= 5)
    /\ (mc.calls.last = "record" /\ mc.wrote) =>
          (mc.calls.rgap = -1 \/ mc.calls.rgap >= 5)
    /\ (mc.calls.last = "flush" /\ ~mc.calls.was_dirty) =>
          ~mc.tried /\ ~mc.wrote /\ mc.calls.kept

C27_Witness ==
    mc.calls.last = "record" /\ mc.wrote /\ mc.calls.rgap = 5 /\ mc.calls.gap = 5

FailureContained ==
    /\ mc.inst => mc.error = ""
    /\ (mc.tried /\ ~mc.wrote) => mc.calls.kept /\ mc.dirty

\* C28 as stated: a flush that fails raises nothing, leaves the cache file,
\* the data, the dirty flag and the last-dump time as they were, and the next
\* record call attempts the flush again.
C28_FlushFailure_AsStated ==
    /\ FailureContained
    /\ (mc.calls.last = "record" /\ mc.calls.retry_due) => mc.tried

\* C28: the same, the next record call attempting the flush again when at
\* least 5 time units have passed since the latest successful dump, which is
\* so whenever the failed flush came out of a record call.
C28_FlushFailure ==
    /\ FailureContained
    /\ (/\ mc.calls.last = "record" /\ mc.calls.retry_due
        /\ (mc.calls.gap = -1 \/ mc.calls.gap >= 5)) => mc.tried

C28_Witness ==
    /\ mc.calls.last = "record" /\ mc.calls.retry_due /\ mc.tried /\ ~mc.wrote
    /\ mc.file \in FileCatalogue /\ mc.file.kind = "object" /\ mc.tmp = "present"

\* ======================================================================
\* Message recorder: src/bw_learner/message_recorder.py
\* ======================================================================
\* Fields of mr: made, whether the recorder of the chat is constructed;
\* chat_stream, whether get_stream found the stream; now, time.time();
\* last_extraction_time and person_list, the fields of the recorder (the
\* OrderedDict as the sequence of its values, oldest first); db, the stored
\* messages of the chat that a window can still reach; arrivals, the bursts
\* so far.  History: nproc, the messages with a sender processed so far, and
\* touch in every entry of person_list, the number of the latest of them from
\* that sender; evictions, the removals of the latest extraction; extractions,
\* their number; window_start, window_count and time_diff, the window of the
\* latest extraction, the messages should_trigger_extraction counted in it and
\* the time it measured.

\* get_raw_msg_by_timestamp_with_chat_inclusive: both ends belong to the window
InWindow(db, timestamp_start, timestamp_end) ==
    SelectSeq(db, LAMBDA m : timestamp_start <= m.time /\ m.time <= timestamp_end)

\* sorted(messages, key=lambda msg: msg.time or 0): stable, so the messages
\* of the least time in their order, then those of the next time, and so on
RECURSIVE SortedFrom(_, _)
SortedFrom(messages, times) ==
    IF times = {} THEN <<>>
    ELSE LET t == Min(times)
         IN SelectSeq(messages, LAMBDA m : m.time = t)
                \o SortedFrom(messages, times \ {t})

sorted(messages) == SortedFrom(messages, {messages[i].time : i \in 1..Len(messages)})

\* f"{user_platform}:{user_id}"
unique_key(platform, user_id) == <<platform, ":", user_id>>

Keys(list) == {list[i].key : i \in 1..Len(list)}
Without(list, key) == SelectSeq(list, LAMBDA e : e.key # key)

\* variant: the time is updated, the entry stays where it is
Touch_InPlace(list, key, msg_time, n) ==
    [i \in 1..Len(list) |->
        IF list[i].key = key
        THEN [key |-> key, last_seen_time |-> msg_time, touch |-> n] ELSE list[i]]

\* lines 266-269: last_seen_time updated, move_to_end
Touch(list, key, msg_time, n) ==
    Append(Without(list, key), [key |-> key, last_seen_time |-> msg_time, touch |-> n])

\* variant: the list is full only beyond the maximum
Full_Beyond(list) == Len(list) > _max_person_count
\* line 272
Full(list) == Len(list) >= _max_person_count

\* lines 231-287, one message; st holds person_list, nproc and evictions
UpdatePerson(st, msg) ==
    IF msg.user_id = 0 \/ msg.platform = "" THEN st
    ELSE LET key == unique_key(msg.platform, msg.user_id)
             n == st.nproc + 1
             list == st.person_list
         IN IF key \in Keys(list)
            THEN [st EXCEPT !.person_list = Touch(list, key, msg.time, n), !.nproc = n]
            ELSE LET kept == IF Full(list) THEN Tail(list) ELSE list
                     entry == [key |-> key, last_seen_time |-> msg.time, touch |-> n]
                     after == Append(kept, entry)
                     removal == [key |-> Head(list).key,
                                 by |-> key,
                                 touch |-> Head(list).touch,
                                 last_seen_time |-> Head(list).last_seen_time,
                                 others_touch |->
                                     Min({list[i].touch : i \in 2..Len(list)}),
                                 others_time |->
                                     Min({list[i].last_seen_time : i \in 2..Len(list)}),
                                 before |-> Len(list), after |-> Len(after)]
                 IN [st EXCEPT !.person_list = after, !.nproc = n,
                               !.evictions = IF Full(list) THEN Append(@, removal) ELSE @]

\* _update_person_list, lines 224-287: the loop over messages[lo..hi], taken
\* in two halves one after the other
RECURSIVE UpdateRange(_, _, _, _)
UpdateRange(messages, lo, hi, st) ==
    IF lo > hi THEN st
    ELSE IF lo = hi THEN UpdatePerson(st, messages[lo])
    ELSE LET mid == (lo + hi) \div 2
             first == UpdateRange(messages, lo, mid, st)
         IN \* the test has the first half evaluated before the second is entered
            IF first.nproc >= st.nproc
            THEN UpdateRange(messages, mid + 1, hi, first) ELSE first

_update_person_list(messages, st) == UpdateRange(messages, 1, Len(messages), st)

\* variant: the interval is not looked at
TooSoon_Never(time_diff) == FALSE
\* lines 83-85
TooSoon(time_diff) == time_diff < min_extraction_interval

\* lines 94-95
TooFew(recent_messages) ==
    recent_messages = <<>> \/ Len(recent_messages) < min_messages_for_extraction

\* should_trigger_extraction, lines 75-97
should_trigger_extraction(r) ==
    /\ ~TooSoon(r.now - r.last_extraction_time)
    /\ ~TooFew(InWindow(r.db, r.last_extraction_time, r.now))

\* a message as the database holds it; windows: the number of extraction
\* windows whose messages, handed to the expression learner, included it
Stored(m) == [platform |-> m.platform, user_id |-> m.user_id, time |-> m.time,
              windows |-> 0]

\* lines 152-155: the task made for the expression learner gets the messages
\* of the window
Handed(db, timestamp_start, timestamp_end) ==
    [i \in 1..Len(db) |->
        IF timestamp_start <= db[i].time /\ db[i].time <= timestamp_end
        THEN [db[i] EXCEPT !.windows = @ + 1] ELSE db[i]]

\* history: the greatest number of windows any one message was handed with
MostWindows(db, so_far) ==
    IF \E i \in 1..Len(db) : db[i].windows > so_far
    THEN CHOOSE n \in {db[i].windows : i \in 1..Len(db)} :
            \A i \in 1..Len(db) : db[i].windows <= n
    ELSE so_far

\* -------------------------------------------------------------- operations
\* recorder_manager.get_recorder creates the recorder of the chat, lines 37-58
MR_GetRecorder ==
    /\ ~mr.made
    /\ \E cs \in BOOLEAN, el \in BOOLEAN :
         mr' = [mr EXCEPT !.made = TRUE, !.chat_stream = cs,
                          !.enable_expression_learning = el,
                          !.last_extraction_time = mr.now]
    /\ UNCHANGED <<delVars, ie, mc, mt, more>>

\* a burst of messages is stored for the chat
MR_Arrive(burst) ==
    /\ mr.arrivals < MaxArrivals
    /\ mr' = [mr EXCEPT
                !.db = @ \o [i \in 1..Len(burst) |->
                                Stored(Msg(burst[i].platform, burst[i].user_id,
                                           mr.now + burst[i].time))],
                !.arrivals = @ + 1]
    /\ UNCHANGED <<delVars, ie, mc, mt, more>>

\* time passes
MR_Tick ==
    /\ \E d \in RecTickSteps :
         /\ mr.now + d <= StartTime + MaxRecElapsed
         /\ mr' = [mr EXCEPT !.now = @ + d]
    /\ UNCHANGED <<delVars, ie, mc, mt, more>>

\* extract_and_distribute, lines 99-166; nothing in the body of the lock
\* awaits, so the body runs without another coroutine in between.  fetch_ok:
\* the second fetch returns (otherwise it raises, line 162 catches).
MR_ExtractAndDistribute ==
    /\ mr.made
    /\ should_trigger_extraction(mr)
    /\ mr.chat_stream
    /\ \E d \in HandlerTimes, fetch_ok \in BOOLEAN :
         LET extraction_start_time == mr.last_extraction_time
             extraction_end_time == mr.now + d
             messages == InWindow(mr.db, extraction_start_time, extraction_end_time)
             st0 == [person_list |-> mr.person_list, nproc |-> mr.nproc,
                     evictions |-> <<>>]
             st == IF fetch_ok THEN _update_person_list(sorted(messages), st0) ELSE st0
             handed == IF fetch_ok /\ mr.enable_expression_learning
                       THEN Handed(mr.db, extraction_start_time, extraction_end_time)
                       ELSE mr.db
         IN /\ extraction_end_time <= StartTime + MaxRecElapsed
            /\ mr' = [mr EXCEPT
                        !.now = extraction_end_time,
                        !.last_extraction_time = extraction_end_time,
                        !.person_list = st.person_list,
                        !.nproc = st.nproc,
                        !.evictions = st.evictions,
                        !.extractions = @ + 1,
                        !.window_start = extraction_start_time,
                        !.window_count =
                            Len(InWindow(mr.db, extraction_start_time, mr.now)),
                        !.time_diff = mr.now - extraction_start_time,
                        \* the messages no later window reaches are left out
                        !.db = SelectSeq(handed,
                                         LAMBDA m : m.time >= extraction_end_time),
                        !.most_windows = MostWindows(handed, @)]
    /\ UNCHANGED <<delVars, ie, mc, mt, more>>

\* extract_and_distribute returns at line 107 or 111
MR_ExtractSkipped ==
    /\ mr.made
    /\ ~(should_trigger_extraction(mr) /\ mr.chat_stream)
    /\ mr' = mr
    /\ UNCHANGED <<delVars, ie, mc, mt, more>>

NextRec ==
    \/ MR_GetRecorder
    \/ \E b \in Bursts : MR_Arrive(b)
    \/ MR_Tick
    \/ MR_ExtractAndDistribute
    \/ MR_ExtractSkipped

SpecRec == Init /\ [][NextRec]_vars

\* --------------------------------------------------- recorder: properties
\* C21: the participant list never holds more than 30 entries, and no two of
\* its entries have the same platform:user_id key.
C21_BoundedParticipants ==
    /\ Len(mr.person_list) <= 30
    /\ \A i, j \in 1..Len(mr.person_list) :
          i # j => mr.person_list[i].key # mr.person_list[j].key

C21_Witness ==
    /\ Len(mr.person_list) = 30 /\ Len(mr.evictions) = 2
    /\ unique_key("qq", 32) \in Keys(mr.person_list)

\* C22: every removal from the list takes place at capacity, removes exactly
\* one entry, and removes the entry whose latest processed message is the
\* oldest (in processing order and in message time); the entries stand in the
\* order of their latest processed message, so a participant seen again is
\* the most recent one and not the next to be removed.
C22_LruEviction ==
    /\ \A i \in 1..Len(mr.evictions) :
          LET e == mr.evictions[i]
          IN /\ e.before = 30 /\ e.after = 30
             /\ e.touch < e.others_touch
             /\ e.last_seen_time <= e.others_time
             /\ e.key # e.by
    /\ \A i, j \in 1..Len(mr.person_list) :
          i < j => /\ mr.person_list[i].touch < mr.person_list[j].touch
                   /\ mr.person_list[i].last_seen_time <= mr.person_list[j].last_seen_time

C22_Witness ==
    /\ Len(mr.evictions) = 2
    /\ mr.evictions[1].key = unique_key("qq", 2)
    /\ mr.evictions[1].by = unique_key("qq", 31)
    /\ mr.evictions[2].key = unique_key("qq", 3)
    /\ mr.person_list[28].key = unique_key("qq", 1)

\* C23: an extraction is performed only when should_trigger_extraction
\* measured at least 60 time units since last_extraction_time and counted at
\* least 30 messages in the window since then; two extractions of the stream
\* are at least 60 units apart; last_extraction_time never decreases.
Gated ==
    mr.extractions > 0 =>
        /\ mr.time_diff >= 60
        /\ mr.window_count >= 30
        /\ mr.last_extraction_time - mr.window_start >= 60

C23_TriggerGating ==
    /\ []Gated
    /\ [][mr'.last_extraction_time >= mr.last_extraction_time]_vars

C23_Witness ==
    /\ mr.extractions = 2 /\ mr.time_diff = 60 /\ mr.window_count = 30
    /\ mr.last_extraction_time - mr.window_start = 60

\* ======================================================================
\* Threads of one process that share the model performance cache
\* (src/llm_models/model_performance_cache.py).  A step is what a thread does
\* between two points where another thread can run.
\* ======================================================================

\* variant: the lock keeps nobody out
CanAcquire_Always(o, t) == TRUE

\* with self._lock (lines 59, 81, 105, 124): an RLock is free (0) or held by
\* the calling thread
CanAcquire(o, t) == mt.lock[o] \in {0, t}

RecordCalls == {"record_success", "record_failure"}

\* json.dump(self._data, fp) and os.replace, lines 67-71: the file gets the
\* entry as it is at that moment
Written(c, o) ==
    [c EXCEPT !.file = c.entry[o], !.dirty[o] = FALSE, !.dumped[o] = TRUE]

\* line 27: if cls._instance is None
MT_Check(t) ==
    /\ mt.at[t] = "call"
    /\ mt' = [mt EXCEPT !.at[t] = IF mt._instance = 0 THEN "make" ELSE "return"]
    /\ UNCHANGED <<delVars, ie, mc, mr, more>>

\* lines 28-32: cls._instance = cls(cache_path); __init__ loads the file
MT_Construct(t) ==
    /\ mt.at[t] = "make"
    /\ LET o == mt.made + 1
       IN mt' = [mt EXCEPT !.made = o, !._instance = o, !.at[t] = "register"]
    /\ UNCHANGED <<delVars, ie, mc, mr, more>>

\* line 33: atexit.register(cls._instance.flush)
MT_Register(t) ==
    /\ mt.at[t] = "register"
    /\ mt' = [mt EXCEPT !.registered[mt._instance] = @ + 1, !.at[t] = "return"]
    /\ UNCHANGED <<delVars, ie, mc, mr, more>>

\* line 34: return cls._instance
MT_Return(t) ==
    /\ mt.at[t] = "return"
    /\ mt' = [mt EXCEPT !.got[t] = mt._instance, !.at[t] = "idle"]
    /\ UNCHANGED <<delVars, ie, mc, mr, more>>

\* the thread calls a method of the object it got
MT_Call(t, name) ==
    /\ mt.at[t] = "idle" /\ mt.ops[t] < MaxThreadOps
    /\ mt' = [mt EXCEPT !.call[t] = name, !.ops[t] = @ + 1, !.at[t] = "lock"]
    /\ UNCHANGED <<delVars, ie, mc, mr, more>>

\* with self._lock, lines 59, 81, 105, 124
MT_Acquire(t) ==
    /\ mt.at[t] = "lock"
    /\ CanAcquire(mt.got[t], t)
    /\ mt' = [mt EXCEPT !.lock[mt.got[t]] = t,
                        !.at[t] = IF mt.call[t] \in RecordCalls THEN "enter"
                                  ELSE IF mt.call[t] = "get_stats" THEN "copy"
                                  ELSE "dump"]
    /\ UNCHANGED <<delVars, ie, mc, mr, more>>

\* lines 106-110 and 125-129: the first fields are written and the count is
\* read
MT_Enter(t) ==
    /\ mt.at[t] = "enter"
    /\ LET o == mt.got[t]
           e == mt.entry[o]
       IN mt' = [mt EXCEPT !.entry[o].head = @ + 1,
                           !.count[t] = IF mt.call[t] = "record_success"
                                        THEN e.success_count ELSE e.fail_count,
                           !.at[t] = "update"]
    /\ UNCHANGED <<delVars, ie, mc, mr, more>>

\* lines 110-118 and 129-139: the count and the rest of the fields are
\* written, avg_latency last
MT_Update(t) ==
    /\ mt.at[t] = "update"
    /\ LET o == mt.got[t]
           n == AtMost(mt.count[t] + 1, SuccessCap)
       IN mt' = [mt EXCEPT
                    !.entry[o] = IF mt.call[t] = "record_success"
                                 THEN [@ EXCEPT !.success_count = n, !.tail = @ + 1]
                                 ELSE [@ EXCEPT !.fail_count = n, !.tail = @ + 1],
                    !.recorded[o] = @ + 1,
                    !.at[t] = "mark"]
    /\ UNCHANGED <<delVars, ie, mc, mr, more>>

\* lines 120, 141 and 143-147: _mark_dirty_locked, the dump when it is due,
\* and the end of the with block
MT_MarkDirty(t) ==
    /\ mt.at[t] = "mark"
    /\ \E due \in BOOLEAN :
         LET o == mt.got[t]
             d == [mt EXCEPT !.dirty[o] = TRUE]
             f == IF due THEN Written(d, o) ELSE d
         IN mt' = [f EXCEPT !.lock[o] = 0, !.at[t] = "idle"]
    /\ UNCHANGED <<delVars, ie, mc, mr, more>>

\* get_stats, lines 82-83: the entries are copied; torn: a copy was taken of
\* an entry in the middle of an update
MT_GetStats(t) ==
    /\ mt.at[t] = "copy"
    /\ LET o == mt.got[t]
       IN mt' = [mt EXCEPT !.copied[o] = TRUE,
                           !.torn = @ \/ mt.entry[o].head # mt.entry[o].tail,
                           !.lock[o] = 0, !.at[t] = "idle"]
    /\ UNCHANGED <<delVars, ie, mc, mr, more>>

\* flush, lines 59-60, with _flush_locked
MT_Flush(t) ==
    /\ mt.at[t] = "dump"
    /\ LET o == mt.got[t]
           f == IF mt.dirty[o] THEN Written(mt, o) ELSE mt
       IN mt' = [f EXCEPT !.lock[o] = 0, !.at[t] = "idle"]
    /\ UNCHANGED <<delVars, ie, mc, mr, more>>

NextThreads ==
    \E t \in Threads :
        \/ MT_Check(t)
        \/ MT_Construct(t)
        \/ MT_Register(t)
        \/ MT_Return(t)
        \/ \E name \in ThreadCalls : MT_Call(t, name)
        \/ MT_Acquire(t)
        \/ MT_Enter(t)
        \/ MT_Update(t)
        \/ MT_MarkDirty(t)
        \/ MT_GetStats(t)
        \/ MT_Flush(t)

SpecThreads == Init /\ [][NextThreads]_vars

\* ----------------------------------------------------- threads: properties

\* C29: single cache instance.  Whatever the interleaving of the threads
\* that call instance(), one object at most is constructed, one exit-time
\* flush at most is registered, and all callers that have returned hold the
\* same object.
C29_SingleInstance ==
    /\ mt.made <= 1
    /\ mt.registered[1] + mt.registered[2] <= 1
    /\ \A t, u \in Threads :
         (mt.got[t] # 0 /\ mt.got[u] # 0) => mt.got[t] = mt.got[u]

\* C30: cache updates are mutually exclusive.  On every cache object the two
\* counts of the entry add up to the number of record calls that have
\* updated it, no get_stats copy was taken of an entry in the middle of an
\* update, and the dumped file holds no such entry.
C30_MutualExclusion ==
    /\ \A o \in CacheObjects :
         mt.entry[o].success_count + mt.entry[o].fail_count = mt.recorded[o]
    /\ ~mt.torn
    /\ mt.file.head = mt.file.tail

\* two threads hold the same object; one is in the middle of a record call
\* and the other waits for the lock, after a record call, a dump and a
\* get_stats copy on that object
C30_Witness ==
    \E o \in CacheObjects : \E t, u \in Threads :
        /\ t # u /\ mt.got[t] = o /\ mt.got[u] = o
        /\ mt.at[t] = "lock" /\ mt.lock[o] = u /\ mt.at[u] = "update"
        /\ mt.entry[o].head = mt.entry[o].tail + 1
        /\ mt.recorded[o] >= 1 /\ mt.dumped[o] /\ mt.copied[o]
        /\ mt.file.head >= 1

\* ======================================================================
\* Coroutines that call extract_and_distribute_messages(chat_id) for one
\* chat (src/bw_learner/message_recorder.py, lines 99-166 and 332-357).
\* Another coroutine may run between any two steps below; the event loop
\* lets one run only where a coroutine awaits, so its interleavings are
\* among these.
\* ======================================================================

\* variant: the lock keeps nobody out
LockFree_Always(r) == TRUE

\* async with self._extraction_lock, line 104
LockFree(r) == r.lock = 0

\* get_recorder, lines 338-342, and the first try at the lock, line 104
RX_Enter(t) ==
    /\ rx.at[t] = "idle" /\ rx.calls[t] < MaxTaskCalls
    /\ LET r == IF rx.recorders = 0
                THEN [rx EXCEPT !.recorders = 1, !.last_extraction_time = rx.now]
                ELSE rx
       IN rx' = IF LockFree(r)
                THEN [r EXCEPT !.lock = t, !.at[t] = "check", !.calls[t] = @ + 1]
                ELSE [r EXCEPT !.at[t] = "wait", !.calls[t] = @ + 1]
    /\ UNCHANGED <<delVars, ie, mc, mr, mt, cm, sp>>

\* the lock is handed to a coroutine that waited for it
RX_Wake(t) ==
    /\ rx.at[t] = "wait" /\ LockFree(rx)
    /\ rx' = [rx EXCEPT !.lock = t, !.at[t] = "check"]
    /\ UNCHANGED <<delVars, ie, mc, mr, mt, cm, sp>>

\* lines 106-111: the check inside the lock; chat_stream: the stream exists
RX_Check(t) ==
    /\ rx.at[t] = "check"
    /\ \E chat_stream \in BOOLEAN :
         rx' = IF should_trigger_extraction(rx) /\ chat_stream
               THEN [rx EXCEPT !.at[t] = "window"]
               ELSE [rx EXCEPT !.at[t] = "idle", !.lock = 0]
    /\ UNCHANGED <<delVars, ie, mc, mr, mt, cm, sp>>

\* lines 114-118
RX_Window(t) ==
    /\ rx.at[t] = "window"
    /\ rx' = [rx EXCEPT
                !.extraction_start_time[t] = rx.last_extraction_time,
                !.extraction_end_time[t] = rx.now,
                !.last_extraction_time = rx.now,
                !.windows = Append(@, [by |-> t, start |-> rx.last_extraction_time,
                                       end |-> rx.now]),
                !.at[t] = "fetch"]
    /\ UNCHANGED <<delVars, ie, mc, mr, mt, cm, sp>>

\* lines 120-166: the messages of the window are fetched and passed on, and
\* the lock is left; fetch_ok: the fetch returns
RX_Fetch(t) ==
    /\ rx.at[t] = "fetch"
    /\ \E fetch_ok \in BOOLEAN :
         LET messages == InWindow(rx.db, rx.extraction_start_time[t],
                                  rx.extraction_end_time[t])
         IN rx' = [rx EXCEPT
                     !.dispatched = IF fetch_ok /\ messages # <<>>
                                    THEN Append(@, [by |-> t,
                                                    start |-> rx.extraction_start_time[t],
                                                    end |-> rx.extraction_end_time[t]])
                                    ELSE @,
                     !.at[t] = "idle", !.lock = 0]
    /\ UNCHANGED <<delVars, ie, mc, mr, mt, cm, sp>>

\* thirty messages are stored for the chat
RX_Arrive ==
    /\ rx.arrivals < MaxArrivals
    /\ rx' = [rx EXCEPT !.db = @ \o [i \in 1..Len(Crowd) |->
                                        Msg(Crowd[i].platform, Crowd[i].user_id, rx.now)],
                        !.arrivals = @ + 1]
    /\ UNCHANGED <<delVars, ie, mc, mr, mt, cm, sp>>

\* time passes
RX_Tick ==
    /\ rx.now + min_extraction_interval <= StartTime + MaxRecElapsed
    /\ rx' = [rx EXCEPT !.now = @ + min_extraction_interval]
    /\ UNCHANGED <<delVars, ie, mc, mr, mt, cm, sp>>

NextTasks ==
    \/ \E t \in Tasks :
          \/ RX_Enter(t)
          \/ RX_Wake(t)
          \/ RX_Check(t)
          \/ RX_Window(t)
          \/ RX_Fetch(t)
    \/ RX_Arrive
    \/ RX_Tick

SpecTasks == Init /\ [][NextTasks]_vars

\* ----------------------------------------------------- tasks: properties

\* C31: extraction is serialized per stream.  One recorder serves the chat;
\* at most one call at a time is between the trigger check and the end of
\* its extraction, so the check, the window and the update of
\* last_extraction_time of a call have no step of another call's body in
\* between; no two extractions have the same window, each window starting
\* where the one before ended; and only the call that took a window passes
\* its messages on.
C31_Serialized ==
    /\ rx.recorders <= 1
    /\ Cardinality({t \in Tasks : rx.at[t] \in {"check", "window", "fetch"}}) <= 1
    /\ \A i, j \in 1..Len(rx.windows) :
          i < j => /\ rx.windows[i].start < rx.windows[j].start
                   /\ rx.windows[i].end <= rx.windows[j].start
    /\ \A i \in 1..Len(rx.dispatched) :
          /\ \E k \in 1..Len(rx.windows) : rx.windows[k] = rx.dispatched[i]
          /\ \A j \in 1..Len(rx.dispatched) :
                i # j => rx.dispatched[i].start # rx.dispatched[j].start

\* one call waits for the lock while the other, past the check, has taken
\* the window; an earlier window was extracted and passed on
C31_Witness ==
    \E t, u \in Tasks :
        /\ t # u /\ rx.at[t] = "wait" /\ rx.at[u] = "fetch" /\ rx.lock = u
        /\ Len(rx.windows) = 2 /\ Len(rx.dispatched) = 1
        /\ rx.windows[1].by = t

\* ======================================================================
\* ConfigMap sync (helm-chart/core-webui-cm-sync/core-webui-cm-sync.py)
\* ======================================================================

\* lines 50-52: the patch built from the file that was read
new_cm(src_path, current_data) ==
    [k \in {"model_config.toml"} |-> current_data]

\* patch_namespaced_config_map, line 39: the entries named in the patch are
\* replaced, the others stay
set_configmap(configmap, configmap_data) ==
    [k \in DOMAIN configmap |->
        IF k \in DOMAIN configmap_data THEN configmap_data[k] ELSE configmap[k]]

\* lines 61-83: the two entries are read and written to the working
\* directory, then the observer starts; api_ok: get_configmap returns
CM_Start ==
    /\ cm.pc = "init"
    /\ \E api_ok \in BOOLEAN :
         cm' = IF api_ok
               THEN [cm EXCEPT !.pc = "watching",
                               !.files = [f \in WorkDirPaths |->
                                            IF f \in target_files THEN cm.configmap[f]
                                            ELSE IF f = "ready" THEN "true" ELSE ""]]
               ELSE [cm EXCEPT !.pc = "exited"]
    /\ UNCHANGED <<delVars, ie, mc, mr, mt, rx, sp>>

\* a path of the working directory is modified; the observer queues the event
CM_Modify(path, content) ==
    /\ cm.pc = "watching" /\ cm.modifications < MaxModifications
    /\ cm' = [cm EXCEPT !.files[path] = IF path = "." THEN @ ELSE content,
                        !.events = Append(@, path),
                        !.modifications = @ + 1]
    /\ UNCHANGED <<delVars, ie, mc, mr, mt, rx, sp>>

\* on_modified, lines 44-58; api_ok: set_configmap returns (otherwise
\* ApiException, caught at line 55)
CM_OnModified ==
    /\ cm.pc = "watching" /\ cm.events # <<>>
    /\ \E api_ok \in BOOLEAN :
         LET src_path == Head(cm.events)
             current_data == cm.files[src_path]
             patches == src_path \in target_files /\ api_ok
         IN cm' = [cm EXCEPT
                     !.events = Tail(@),
                     !.configmap = IF patches
                                   THEN set_configmap(@, new_cm(src_path, current_data))
                                   ELSE @,
                     !.last = [src_path |-> src_path, current_data |-> current_data,
                               patched |-> patches, before |-> cm.configmap]]
    /\ UNCHANGED <<delVars, ie, mc, mr, mt, rx, sp>>

NextSync ==
    \/ CM_Start
    \/ \E path \in WorkDirPaths, content \in Contents : CM_Modify(path, content)
    \/ CM_OnModified

SpecSync == Init /\ [][NextSync]_vars

\* ------------------------------------------------------ sync: properties

\* C32: after the handler has dealt with the modification of a watched file
\* (the API call having succeeded), the ConfigMap entry of that file name
\* holds the content read from the file and the entry of the other watched
\* file is as it was; after the modification of any other path the
\* ConfigMap is as it was.
C32_SyncSameName ==
    cm.last.src_path # "" =>
        IF cm.last.src_path \in target_files
        THEN cm.last.patched =>
               /\ cm.configmap[cm.last.src_path] = cm.last.current_data
               /\ \A k \in target_files \ {cm.last.src_path} :
                     cm.configmap[k] = cm.last.before[k]
        ELSE cm.configmap = cm.last.before

\* ======================================================================
\* Default-plugin setup (helm-chart/files/setup-plugins.py), one run of the
\* init container after another
\* ======================================================================

\* hash_dir_file, lines 16-36: the digest of a file or directory content; a
\* path that does not exist is walked as an empty directory (os.walk yields
\* nothing) and gives the digest of no data
hash_dir_file(content) ==
    IF content = "absent" THEN <<"sha256">> ELSE <<"sha256", content>>

\* line 63: {plugin: hash_dir_file(plugin) for plugin in os.listdir(SRC_DIR)};
\* the argument is the bare name, a path relative to the working directory
setup_plugins(src) ==
    [plugin \in {p \in Plugins : src[p] # "absent"} |->
        hash_dir_file(WorkDirEntry(plugin))]

\* lines 86-87
ToInstall(setup, installed_plugins) ==
    {plugin \in DOMAIN setup :
        installed_plugins[plugin] = "none" \/ setup[plugin] # installed_plugins[plugin]}

\* what the claim asks to be installed: never installed, or the content
\* under /MaiMBot/plugins differs from the one last installed
Due(c) ==
    {p \in Plugins : c.src[p] # "absent" /\ c.shipped[p] # c.src[p]}

\* one run, lines 63-95; copy_plugin, lines 38-61, backs the old copy up
SP_Run ==
    /\ sp.runs < MaxRuns
    /\ LET setup == setup_plugins(sp.src)
           installed_plugins == IF sp.status_file THEN sp.status
                                ELSE [p \in Plugins |-> "none"]
           to_install == ToInstall(setup, installed_plugins)
           old == {p \in to_install : sp.dst[p] # "absent"}
           kept == sp.backups \cup {[plugin |-> p, content |-> sp.dst[p]] : p \in old}
       IN sp' = [sp EXCEPT
                   !.dst = [p \in Plugins |-> IF p \in to_install THEN sp.src[p] ELSE @[p]],
                   !.backups = kept,
                   !.status = [p \in Plugins |->
                                 IF p \in to_install THEN setup[p] ELSE installed_plugins[p]],
                   !.status_file = TRUE,
                   !.runs = @ + 1,
                   !.shipped = [p \in Plugins |-> IF p \in to_install THEN sp.src[p] ELSE @[p]],
                   !.last = [installed |-> to_install, due |-> Due(sp),
                             backed_up |-> \A p \in old :
                                 [plugin |-> p, content |-> sp.dst[p]] \in kept]]
    /\ UNCHANGED <<delVars, ie, mc, mr, mt, rx, cm>>

\* a new image ships plugin p with content v
SP_ImageUpdate(p, v) ==
    /\ sp.changes < MaxChanges /\ sp.src[p] # v
    /\ sp' = [sp EXCEPT !.src[p] = v, !.changes = @ + 1]
    /\ UNCHANGED <<delVars, ie, mc, mr, mt, rx, cm>>

\* the user deletes an installed plugin from the storage volume
SP_UserDelete(p) ==
    /\ sp.changes < MaxChanges /\ sp.dst[p] # "absent"
    /\ sp' = [sp EXCEPT !.dst[p] = "absent", !.changes = @ + 1]
    /\ UNCHANGED <<delVars, ie, mc, mr, mt, rx, cm>>

NextSetup ==
    \/ SP_Run
    \/ \E p \in Plugins, v \in Versions : SP_ImageUpdate(p, v)
    \/ \E p \in Plugins : SP_UserDelete(p)

SpecSetup == Init /\ [][NextSetup]_vars

\* ----------------------------------------------------- setup: properties

\* C33: the plugins a run installs are exactly the default plugins that were
\* never installed or whose content under /MaiMBot/plugins differs from the
\* content last installed, each old copy being backed up; a plugin the user
\* deleted and that has not changed is not among them.
C33_InstallWhenChanged ==
    sp.runs > 0 => sp.last.installed = sp.last.due /\ sp.last.backed_up

\* ---------------------------------------- extraction: termination

\* C34: whatever the LLM clients answer, and whether or not an event loop
\* runs in the calling thread, a call of info_extract_from_str that has not
\* returned always has a step to take (an LLM answer, the end of a sleep):
\* it is never left waiting for something that cannot happen.  The number
\* of steps of a call is bounded by the two retry loops, so a call that
\* always has a step returns.
C34_Terminates ==
    ie.pc \notin {"idle", "returned"} =>
        \/ ie.pc \in {"ner", "rdf"}               \* the request is about to be made
        \/ ie.pc \in {"ner_sleep", "rdf_sleep"}   \* time.sleep(5) ends

\* ---------------------------------- deletion script: targets and gates

\* the identifiers of the command line before line 231 removes repeats
RawHashes(a) == a.hash_file \o read_openie_hashes(a.openie_file) \o SearchPick(a)

Distinct(s) == \A i, j \in 1..Len(s) : i # j => s[i] # s[j]

\* the run has got past the count: keys, pg_hashes and the total are set
Counted == pc # "idle" /\ outcome \notin {"error_no_source", "error_no_hashes"}

\* C35: whatever form the paragraph identifiers are given in, bare hash,
\* full key or both, the keys handed to the paragraph collection and the
\* hashes handed to the graph name each paragraph once, in the order of
\* first occurrence, and keys[i] = 'paragraph-' + pg_hashes[i].
C35_DistinctTargets ==
    Counted =>
        LET raw == RawHashes(args)
        IN /\ loc.keys = Dedup([i \in 1..Len(raw) |-> NormKey(raw[i])], {})
           /\ Distinct(loc.keys) /\ Distinct(loc.pg_hashes)
           /\ \A i \in 1..Len(loc.keys) : loc.keys[i] = ParagraphKey(loc.pg_hashes[i])

\* the distinct nodes a request targets: paragraphs, and entities when
\* entity deletion is requested
DistinctNodes ==
    Cardinality(Range(loc.keys))
    + (IF args.delete_entities THEN Cardinality(Range(loc.ent_hashes)) ELSE 0)

\* C36: the count that is reported and compared with max_delete_nodes is the
\* number of distinct nodes targeted, so a request for at most
\* max_delete_nodes distinct nodes is not refused by the threshold.
C36_CandidateCount ==
    Counted =>
        /\ loc.total_nodes_to_delete = DistinctNodes
        /\ DistinctNodes <= args.max_delete_nodes => outcome # "error_threshold"

\* the run went on to load the stores
Proceeded == pc # "idle" /\ outcome \in {"running", "done", "crashed", "error_load"}
\* the operator was asked and gave an answer
Answered == pc # "idle" /\ args.confirm # <<>>

\* C37 as stated: without --yes the run goes on only after the answer that is
\* exactly YES, any other answer ends it with nothing changed; with --yes no
\* answer is read.
C37_ConfirmationGate_AsStated ==
    /\ (Proceeded /\ ~args.yes) => args.confirm = YES
    /\ (Answered /\ args.confirm # YES) =>
          pc = "ended" /\ outcome = "cancelled" /\ NothingTouched
    /\ (pc # "idle" /\ args.yes) => ~Answered

\* C37 amended: without --yes the run goes on only after an answer that is
\* YES once leading and trailing whitespace is removed, any other answer
\* ends it with nothing changed; with --yes no answer is read.
C37_ConfirmationGate ==
    /\ (Proceeded /\ ~args.yes) => strip(args.confirm, Whitespace) = YES
    /\ (Answered /\ strip(args.confirm, Whitespace) # YES) =>
          pc = "ended" /\ outcome = "cancelled" /\ NothingTouched
    /\ (pc # "idle" /\ args.yes) => ~Answered

\* a run without --yes, answered YES after a space, has deleted a stored
\* paragraph and saved
C37_Witness ==
    /\ pc = "ended" /\ outcome = "done" /\ ~args.yes
    /\ args.confirm = <<"space">> \o YES
    /\ res.deleted > 0 /\ dPg # pre.pg

\* ------------------------------------------------ cache: the dirty flag

\* C38: for a cache started from a missing or well-formed file, whenever
\* the dirty flag is clear the cache file holds the in-memory data; after
\* every record_success or record_failure the flag is set or the call has
\* written the data, the update included, to the file.  The file of such a
\* cache stays missing or well formed as long as the object lives (second
\* conjunct), so the first conjunct speaks of every state of the cache.
DirtyTracksUnsaved ==
    (mc.inst /\ Sound(mc.file)) =>
        /\ ~mc.dirty => FileContent(mc.file) = mc.data
        /\ mc.calls.last = "record" =>
              \/ mc.dirty
              \/ mc.wrote /\ mc.file = File("object", mc.data)

C38_DirtyTracksUnsaved ==
    /\ []DirtyTracksUnsaved
    /\ [][(mc.inst /\ mc'.inst /\ Sound(mc.file)) => Sound(mc'.file)]_vars

\* a cache loaded from the well-formed file that holds an entry has recorded
\* a call, failed to dump it, recorded another and dumped both
C38_Witness ==
    /\ mc.inst /\ Sound(mc.file) /\ ~mc.dirty
    /\ mc.calls.last = "record" /\ mc.wrote /\ mc.calls.retry_due
    /\ mc.records = 2
    /\ mc.data["k1"].models["m1"].success_count + mc.data["k1"].models["m1"].fail_count = 5
    /\ mc.file = File("object", mc.data)

\* ------------------------------------------- recorder: extraction windows

\* C39: across the extractions of the stream, every stored message is
\* handed to the expression learner with at most one extraction window,
\* also a message whose time is the end of one window and the start of the
\* next.
C39_NoMessageTwice ==
    /\ mr.most_windows <= 1
    /\ \A i \in 1..Len(mr.db) : mr.db[i].windows <= 1

\* ------------------------------------------------ extraction: the fallback

\* C40: for the paragraph and the entity list (of strings) of a relation
\* attempt, _fallback_rdf_triples returns nothing or exactly one triple:
\* its subject is one of the entities and occurs in the paragraph, its
\* predicate is one of the relation words, its object is non-empty and at
\* most 120 characters long, and the triple passes the shape validation.
C40_FallbackTripleValid ==
    (ie.pc = "rdf" /\ \A i \in 1..Len(ie.entity_extract_result) :
                          ie.entity_extract_result[i].k = "str") =>
        LET paragraph == Paragraphs[ie.paragraph]
            entities == ie.entity_extract_result
            fb == _fallback_rdf_triples(paragraph, entities)
            triple == fb.triples[1].items
        IN /\ ~fb.raised
           /\ Len(fb.triples) <= 1
           /\ Len(fb.triples) = 1 =>
                 /\ Len(triple) = 3
                 /\ \E i \in 1..Len(entities) : entities[i] = triple[1]
                 /\ contains(paragraph, triple[1].s)
                 /\ \E i \in 1..Len(relation_candidates) :
                       triple[2] = Str(relation_candidates[i])
                 /\ triple[3].k = "str"
                 /\ triple[3].s # <<>>
                 /\ Len(triple[3].s) <= max_object_len
                 /\ ValidTriple(fb.triples[1])

====
